---- MODULE Spec2Model ----
(***************************************************************************)
(* Model of the terminal-emulator core: grid.rs (cells, rows, grid,        *)
(* scrollback, dirty flags), terminal.rs (cursor, interpreter, resize,     *)
(* process_bytes) and the byte parser that drives the interpreter.         *)
(*                                                                         *)
(* Characters and bytes are integers (code points / byte values).          *)
(* A Rust Option is modelled as a record with a field "some".              *)
(***************************************************************************)
EXTENDS Integers, Sequences, FiniteSets, TLC

(***************************************************************************)
(* Bounds of the model.                                                    *)
(***************************************************************************)
\* Largest number of rows / columns a terminal is created with or resized to.
MaxRows == 3
MaxCols == 2
\* Capacity of the scrollback given to Grid::new (Terminal::new passes 10000;
\* the model runs the same code with a small capacity so that the cap is hit).
MaxScrollback == 1
\* The environment stops shrinking the terminal once the scrollback would hold
\* more than MaxScrollback + MaxOverflow rows (the code itself has no limit).
MaxOverflow == 1
\* Largest number of cells (rows * cols) of a terminal of the model.
MaxCells == 4
\* Largest number of bytes of one process_bytes call, and of all calls
\* together, where the calls are recorded (SpecChunk).
MaxChunk == 2
MaxFed == 7

\* The largest number of bytes one read or write on the PTY transfers
MaxIo == 1

\* The largest number of prints between the tab controls (SpecTab)
MaxTabPrints == 2

\* The largest number of parameters of an SGR sequence of which the handling
\* of 38 and 48 is stated (SpecExt)
MaxParams == 6

\* The largest number of rows scrolled off one after another (SpecRows)
MaxScrolled == 3

(***************************************************************************)
(* grid.rs: colours, flags, cells, rows                                    *)
(***************************************************************************)
Named(n) == <<"Named", n>>
Spec256(i) == <<"Spec256", i>>
SpecRgb(r, g, b) == <<"Spec", r, g, b>>

\* Color::default()
Color_default == Named("Foreground")

\* CellFlags bit values
BOLD == 1
ITALIC == 2
UNDERLINE == 4
BLINK == 8
INVERSE == 16
STRIKETHROUGH == 32

\* CellFlags::new()
CellFlags_new == 0

\* CellFlags::contains: self.0 & flag != 0 (flag is a single bit)
contains(flags, flag) == (flags \div flag) % 2 = 1

\* CellFlags::set: self.0 |= flag / self.0 &= !flag
set(flags, flag, enabled) ==
    IF enabled
    THEN IF contains(flags, flag) THEN flags ELSE flags + flag
    ELSE IF contains(flags, flag) THEN flags - flag ELSE flags

\* Cell::new(c)
Cell_new(c) ==
    [c |-> c, fg |-> Color_default, bg |-> Named("Background"), flags |-> CellFlags_new]

\* Cell::reset: the cell becomes ' ' with the default colours and no flags
Cell_reset(cell) ==
    [c |-> 32, fg |-> Color_default, bg |-> Named("Background"), flags |-> CellFlags_new]

\* Cell::default()
Cell_default == Cell_new(32)

\* Row::new(cols)
Row_new(cols) == [cells |-> [i \in 1..cols |-> Cell_default], dirty |-> TRUE]

\* Row::clear
Row_clear(row) ==
    [cells |-> [i \in 1..Len(row.cells) |-> Cell_reset(row.cells[i])], dirty |-> TRUE]

\* Row::resize: Vec::resize truncates or pads with default cells; row dirtied
Row_resize(row, cols) ==
    [cells |-> [i \in 1..cols |->
                  IF i <= Len(row.cells) THEN row.cells[i] ELSE Cell_default],
     dirty |-> TRUE]

(***************************************************************************)
(* grid.rs: Grid.  Row and column indices of the source are 0-based; the   *)
(* sequences of the model are 1-based, so source index i is element i+1.   *)
(***************************************************************************)
\* Grid::new
Grid_new(rows, cols, max_scrollback) ==
    [rows |-> [i \in 1..rows |-> Row_new(cols)],
     cols |-> cols,
     scrollback |-> <<>>,
     max_scrollback |-> max_scrollback]

None == [some |-> FALSE]
Some(v) == [some |-> TRUE, val |-> v]

\* Grid::get_cell
get_cell(g, row, col) ==
    IF row < Len(g.rows) /\ col < Len(g.rows[row + 1].cells)
    THEN Some(g.rows[row + 1].cells[col + 1])
    ELSE None

\* Mutant of get_cell_mut_grid: the row is not marked dirty
get_cell_mut_grid_NoDirty(g, row) == g

\* Grid::get_cell_mut: the grid after the call (row marked dirty when the
\* row exists, whether or not the column does)
get_cell_mut_grid(g, row) ==
    IF row < Len(g.rows)
    THEN [g EXCEPT !.rows[row + 1].dirty = TRUE]
    ELSE g

\* Grid::get_cell_mut: whether a cell is returned
get_cell_mut_hit(g, row, col) ==
    row < Len(g.rows) /\ col < Len(g.rows[row + 1].cells)

\* Mutant of CapScrollback: the newest row is dropped instead of the oldest
CapScrollback_DropNewest(sb, max_scrollback) ==
    IF Len(sb) > max_scrollback THEN SubSeq(sb, 1, Len(sb) - 1) ELSE sb

\* Vec::remove(0) on the scrollback when it exceeds the cap
CapScrollback(sb, max_scrollback) ==
    IF Len(sb) > max_scrollback THEN Tail(sb) ELSE sb

\* Grid::scroll_up panics when there is no row (Vec::remove(0) on an empty Vec)
scroll_up_panics(g) == Len(g.rows) = 0

\* Grid::scroll_up
scroll_up(g) ==
    IF Len(g.rows) = 0 THEN g
    ELSE [g EXCEPT
            !.scrollback = CapScrollback(Append(g.scrollback, g.rows[1]), g.max_scrollback),
            !.rows = Append(Tail(g.rows), Row_new(g.cols))]

\* Mutant of scroll_down: the row taken back is marked dirty
scroll_down_Dirty(g) ==
    IF Len(g.scrollback) > 0
    THEN [g EXCEPT
            !.scrollback = SubSeq(g.scrollback, 1, Len(g.scrollback) - 1),
            !.rows = SubSeq(<<[g.scrollback[Len(g.scrollback)] EXCEPT !.dirty = TRUE]>>
                            \o g.rows, 1, Len(g.rows))]
    ELSE g

\* Grid::scroll_down
scroll_down(g) ==
    IF Len(g.scrollback) > 0
    THEN [g EXCEPT
            !.scrollback = SubSeq(g.scrollback, 1, Len(g.scrollback) - 1),
            !.rows = SubSeq(<<g.scrollback[Len(g.scrollback)]>> \o g.rows, 1, Len(g.rows))]
    ELSE g

\* Mutant of clear: the cells are reset but no row is marked dirty
clear_KeepFlags(g) ==
    [g EXCEPT !.rows = [i \in 1..Len(g.rows) |->
        [Row_clear(g.rows[i]) EXCEPT !.dirty = g.rows[i].dirty]]]

\* Grid::clear
clear(g) == [g EXCEPT !.rows = [i \in 1..Len(g.rows) |-> Row_clear(g.rows[i])]]

\* Reset cells with 0-based column in lo..hi-1 that exist in the row
ResetCols(row, lo, hi) ==
    [row EXCEPT !.cells = [i \in 1..Len(row.cells) |->
        IF lo <= i - 1 /\ i - 1 < hi THEN Cell_reset(row.cells[i]) ELSE row.cells[i]]]

\* Grid::clear_to_end
clear_to_end(g, start_row, start_col) ==
    [g EXCEPT !.rows = [i \in 1..Len(g.rows) |->
        IF i - 1 = start_row
        THEN [ResetCols(g.rows[i], start_col, g.cols) EXCEPT !.dirty = TRUE]
        ELSE IF i - 1 > start_row THEN Row_clear(g.rows[i])
        ELSE g.rows[i]]]

\* Grid::clear_from_start panics when it indexes self.rows[row_idx] past the
\* end (end_row > rows.len()), or computes cols - 1 with cols = 0
clear_from_start_panics(g, end_row, end_col) ==
    \/ end_row > Len(g.rows)
    \/ end_row < Len(g.rows) /\ g.cols = 0

\* Grid::clear_from_start when it panics: the rows before end_row that exist
\* are cleared by then
clear_from_start_unwound(g, end_row) ==
    [g EXCEPT !.rows = [i \in 1..Len(g.rows) |->
        IF i - 1 < end_row THEN Row_clear(g.rows[i]) ELSE g.rows[i]]]

\* Grid::clear_from_start (when it does not panic)
clear_from_start(g, end_row, end_col) ==
    [g EXCEPT !.rows = [i \in 1..Len(g.rows) |->
        IF i - 1 < end_row THEN Row_clear(g.rows[i])
        ELSE IF i - 1 = end_row
        THEN [ResetCols(g.rows[i], 0,
                        (IF end_col < g.cols - 1 THEN end_col ELSE g.cols - 1) + 1)
                EXCEPT !.dirty = TRUE]
        ELSE g.rows[i]]]

\* Mutant of ResizeCols: the rows are resized but self.cols is not updated
ResizeCols_StaleCols(g, new_cols) ==
    IF new_cols # g.cols
    THEN [g EXCEPT !.rows = [i \in 1..Len(g.rows) |-> Row_resize(g.rows[i], new_cols)]]
    ELSE g

\* Grid::resize, the column part: rows are resized only when the width changes
ResizeCols(g, new_cols) ==
    IF new_cols # g.cols
    THEN [g EXCEPT !.rows = [i \in 1..Len(g.rows) |-> Row_resize(g.rows[i], new_cols)],
                   !.cols = new_cols]
    ELSE g

\* Mutant of grid_resize: rows are removed from the bottom instead of the top
grid_resize_PopBottom(g, new_rows, new_cols) ==
    LET g1 == ResizeCols(g, new_cols)
        n == Len(g1.rows)
    IN IF new_rows > n
       THEN [g1 EXCEPT !.rows = g1.rows \o [i \in 1..(new_rows - n) |-> Row_new(g1.cols)]]
       ELSE IF new_rows < n
       THEN [g1 EXCEPT
               !.scrollback = g1.scrollback \o SubSeq(g1.rows, new_rows + 1, n),
               !.rows = SubSeq(g1.rows, 1, new_rows)]
       ELSE g1

\* Grid::resize
grid_resize(g, new_rows, new_cols) ==
    LET g1 == ResizeCols(g, new_cols)
        n == Len(g1.rows)
    IN IF new_rows > n
       THEN [g1 EXCEPT !.rows = g1.rows \o [i \in 1..(new_rows - n) |-> Row_new(g1.cols)]]
       ELSE IF new_rows < n
       THEN [g1 EXCEPT
               !.scrollback = g1.scrollback \o SubSeq(g1.rows, 1, n - new_rows),
               !.rows = SubSeq(g1.rows, n - new_rows + 1, n)]
       ELSE g1

\* Grid::mark_clean
mark_clean(g) ==
    [g EXCEPT !.rows = [i \in 1..Len(g.rows) |-> [g.rows[i] EXCEPT !.dirty = FALSE]]]

\* Grid::dirty_rows: enumerate the rows in order and keep the 0-based index
\* of each dirty one
RECURSIVE DirtyFrom(_, _)
DirtyFrom(rows, i) ==
    IF i > Len(rows) THEN <<>>
    ELSE (IF rows[i].dirty THEN <<i - 1>> ELSE <<>>) \o DirtyFrom(rows, i + 1)

dirty_rows(g) == DirtyFrom(g.rows, 1)

(***************************************************************************)
(* terminal.rs: Cursor and Terminal                                        *)
(***************************************************************************)
\* Cursor::new
Cursor_new ==
    [row |-> 0, col |-> 0, fg |-> Named("Foreground"), bg |-> Named("Background"),
     flags |-> CellFlags_new]

\* Mutant of reset_style: the flags are kept
reset_style_KeepFlags(cur) ==
    [cur EXCEPT !.fg = Named("Foreground"), !.bg = Named("Background")]

\* Cursor::reset_style
reset_style(cur) ==
    [cur EXCEPT !.fg = Named("Foreground"), !.bg = Named("Background"),
                !.flags = CellFlags_new]

\* The parser keeps at most this many parameters of one sequence
MAX_PARAMS == 32

\* AnsiParser::new: the byte state machine in its ground state, with no
\* parameter and every group length 0
AnsiParser_new ==
    [state |-> "Ground", params |-> <<>>, param |-> 0, lead |-> 0, tail |-> "Ground",
     current_subparams |-> 0, subparams |-> [i \in 1..MAX_PARAMS |-> 0]]

\* Terminal::new.  The field panicked records that a call has panicked; a
\* panicked terminal takes no further step.
Terminal_new(rows, cols, max_scrollback) ==
    [grid |-> Grid_new(rows, cols, max_scrollback),
     cursor |-> Cursor_new,
     saved_cursor |-> None,
     parser |-> AnsiParser_new,
     rows |-> rows,
     cols |-> cols,
     panicked |-> FALSE]

\* A call fails: it panics (an index past the end of a Vec, or a subtraction
\* below 0 in a build with overflow checks), or the subtraction wraps to
\* usize::MAX in a build without them.  Either way the call has failed.
Panic(T) == [T EXCEPT !.panicked = TRUE]

\* Mutant of newline: the column is kept (line feed without carriage return)
newline_KeepCol(T) ==
    LET row1 == T.cursor.row + 1
    IN IF row1 >= T.rows
       THEN [T EXCEPT !.grid = scroll_up(T.grid), !.cursor.row = T.rows - 1]
       ELSE [T EXCEPT !.cursor.row = row1]

\* Mutant of newline: on the last row the cursor stays but nothing scrolls
newline_NoScroll(T) ==
    LET row1 == T.cursor.row + 1
    IN IF row1 >= T.rows
       THEN [T EXCEPT !.cursor.col = 0, !.cursor.row = T.rows - 1]
       ELSE [T EXCEPT !.cursor.col = 0, !.cursor.row = row1]

\* Terminal::newline
newline(T) ==
    LET row1 == T.cursor.row + 1
    IN IF row1 >= T.rows
       THEN IF scroll_up_panics(T.grid) \/ T.rows = 0
            THEN Panic(T)
            ELSE [T EXCEPT !.grid = scroll_up(T.grid),
                           !.cursor.col = 0,
                           !.cursor.row = T.rows - 1]
       ELSE [T EXCEPT !.cursor.col = 0, !.cursor.row = row1]

\* Mutant of WritePrintable: the character is written with the default
\* style instead of the cursor's
WritePrintable_DefaultStyle(T, c) ==
    LET g1 == get_cell_mut_grid(T.grid, T.cursor.row)
        g2 == IF get_cell_mut_hit(T.grid, T.cursor.row, T.cursor.col)
              THEN [g1 EXCEPT !.rows[T.cursor.row + 1].cells[T.cursor.col + 1] =
                       Cell_new(c)]
              ELSE g1
        T1 == [T EXCEPT !.grid = g2, !.cursor.col = T.cursor.col + 1]
    IN IF T1.cursor.col >= T1.cols THEN newline(T1) ELSE T1

\* Terminal::write_char, the printable part: write the cell under the cursor
\* (when it exists), advance the column, wrap when the column reaches cols
WritePrintable(T, c) ==
    LET g1 == get_cell_mut_grid(T.grid, T.cursor.row)
        g2 == IF get_cell_mut_hit(T.grid, T.cursor.row, T.cursor.col)
              THEN [g1 EXCEPT !.rows[T.cursor.row + 1].cells[T.cursor.col + 1] =
                       [c |-> c, fg |-> T.cursor.fg, bg |-> T.cursor.bg,
                        flags |-> T.cursor.flags]]
              ELSE g1
        T1 == [T EXCEPT !.grid = g2, !.cursor.col = T.cursor.col + 1]
    IN IF T1.cursor.col >= T1.cols THEN newline(T1) ELSE T1

\* Terminal::write_char
write_char(T, c) ==
    CASE c = 13 -> [T EXCEPT !.cursor.col = 0]
      [] c = 10 -> newline(T)
      [] c = 9 ->
            LET col1 == ((T.cursor.col \div 8) + 1) * 8
            IN IF col1 >= T.cols
               THEN IF T.cols = 0 THEN Panic(T)
                    ELSE [T EXCEPT !.cursor.col = T.cols - 1]
               ELSE [T EXCEPT !.cursor.col = col1]
      [] c = 8 ->
            IF T.cursor.col > 0 THEN [T EXCEPT !.cursor.col = T.cursor.col - 1] ELSE T
      [] OTHER -> WritePrintable(T, c)

\* The named colour of a 30-37 / 40-47 parameter (offset 0..7)
AnsiColor(k) ==
    CASE k = 0 -> "Black" [] k = 1 -> "Red" [] k = 2 -> "Green" [] k = 3 -> "Yellow"
      [] k = 4 -> "Blue" [] k = 5 -> "Magenta" [] k = 6 -> "Cyan" [] k = 7 -> "White"

\* The named colour of a 90-97 / 100-107 parameter (offset 0..7)
BrightColor(k) ==
    CASE k = 0 -> "BrightBlack" [] k = 1 -> "BrightRed" [] k = 2 -> "BrightGreen"
      [] k = 3 -> "BrightYellow" [] k = 4 -> "BrightBlue" [] k = 5 -> "BrightMagenta"
      [] k = 6 -> "BrightCyan" [] k = 7 -> "BrightWhite"

\* `v as u8` on a non-negative integer: the low eight bits
AsU8(v) == v % 256

\* params[i] of the source (0-based)
Param(params, i) == params[i + 1]

\* Mutant of ExtColor: the indexed colour needs two parameters after the 5
ExtColor_OneMore(params, i) ==
    IF i + 3 < Len(params) /\ Param(params, i + 1) = 5
    THEN [hit |-> TRUE, color |-> Spec256(AsU8(Param(params, i + 2))), skip |-> 2]
    ELSE IF i + 4 < Len(params) /\ Param(params, i + 1) = 2
    THEN [hit |-> TRUE,
          color |-> SpecRgb(AsU8(Param(params, i + 2)), AsU8(Param(params, i + 3)),
                            AsU8(Param(params, i + 4))),
          skip |-> 4]
    ELSE [hit |-> FALSE, color |-> Color_default, skip |-> 0]

\* Terminal::handle_sgr arms 38 / 48: the colour selected at index i, if any,
\* and the number of extra parameters consumed
ExtColor(params, i) ==
    IF i + 2 < Len(params) /\ Param(params, i + 1) = 5
    THEN [hit |-> TRUE, color |-> Spec256(AsU8(Param(params, i + 2))), skip |-> 2]
    ELSE IF i + 4 < Len(params) /\ Param(params, i + 1) = 2
    THEN [hit |-> TRUE,
          color |-> SpecRgb(AsU8(Param(params, i + 2)), AsU8(Param(params, i + 3)),
                            AsU8(Param(params, i + 4))),
          skip |-> 4]
    ELSE [hit |-> FALSE, color |-> Color_default, skip |-> 0]

\* Terminal::handle_sgr, one iteration of the while loop at index i: the
\* cursor after the match arm
SgrArm(cur, params, i) ==
    LET p == Param(params, i)
        ext == ExtColor(params, i)
    IN CASE p = 0 -> reset_style(cur)
         [] p = 1 -> [cur EXCEPT !.flags = set(cur.flags, BOLD, TRUE)]
         [] p = 3 -> [cur EXCEPT !.flags = set(cur.flags, ITALIC, TRUE)]
         [] p = 4 -> [cur EXCEPT !.flags = set(cur.flags, UNDERLINE, TRUE)]
         [] p = 5 -> [cur EXCEPT !.flags = set(cur.flags, BLINK, TRUE)]
         [] p = 7 -> [cur EXCEPT !.flags = set(cur.flags, INVERSE, TRUE)]
         [] p = 9 -> [cur EXCEPT !.flags = set(cur.flags, STRIKETHROUGH, TRUE)]
         [] p = 22 -> [cur EXCEPT !.flags = set(cur.flags, BOLD, FALSE)]
         [] p = 23 -> [cur EXCEPT !.flags = set(cur.flags, ITALIC, FALSE)]
         [] p = 24 -> [cur EXCEPT !.flags = set(cur.flags, UNDERLINE, FALSE)]
         [] p = 25 -> [cur EXCEPT !.flags = set(cur.flags, BLINK, FALSE)]
         [] p = 27 -> [cur EXCEPT !.flags = set(cur.flags, INVERSE, FALSE)]
         [] p = 29 -> [cur EXCEPT !.flags = set(cur.flags, STRIKETHROUGH, FALSE)]
         [] p >= 30 /\ p <= 37 -> [cur EXCEPT !.fg = Named(AnsiColor(p - 30))]
         [] p >= 40 /\ p <= 47 -> [cur EXCEPT !.bg = Named(AnsiColor(p - 40))]
         [] p = 38 -> IF ext.hit THEN [cur EXCEPT !.fg = ext.color] ELSE cur
         [] p = 48 -> IF ext.hit THEN [cur EXCEPT !.bg = ext.color] ELSE cur
         [] p >= 90 /\ p <= 97 -> [cur EXCEPT !.fg = Named(BrightColor(p - 90))]
         [] p >= 100 /\ p <= 107 -> [cur EXCEPT !.bg = Named(BrightColor(p - 100))]
         [] OTHER -> cur

\* The index after one iteration: i += 2 / 4 in the 38 / 48 arms, then i += 1
SgrNext(params, i) ==
    IF Param(params, i) \in {38, 48} THEN i + ExtColor(params, i).skip + 1 ELSE i + 1

\* Terminal::handle_sgr, the while loop from index i
RECURSIVE SgrLoop(_, _, _)
SgrLoop(cur, params, i) ==
    IF i < Len(params)
    THEN SgrLoop(SgrArm(cur, params, i), params, SgrNext(params, i))
    ELSE cur

\* Terminal::handle_sgr
handle_sgr(T, params) ==
    IF Len(params) = 0
    THEN [T EXCEPT !.cursor = reset_style(T.cursor)]
    ELSE [T EXCEPT !.cursor = SgrLoop(T.cursor, params, 0)]

\* Terminal::resize (no PTY attached).  rows - 1 / cols - 1 underflow when
\* the new size is 0
resize(T, rows, cols) ==
    LET T1 == [T EXCEPT !.rows = rows, !.cols = cols,
                        !.grid = grid_resize(T.grid, rows, cols)]
    IN IF (T1.cursor.row >= rows /\ rows = 0) \/ (T1.cursor.col >= cols /\ cols = 0)
       THEN Panic(T1)
       ELSE [T1 EXCEPT
               !.cursor.row = IF T1.cursor.row >= rows THEN rows - 1 ELSE T1.cursor.row,
               !.cursor.col = IF T1.cursor.col >= cols THEN cols - 1 ELSE T1.cursor.col]

(***************************************************************************)
(* terminal.rs: impl Perform for Terminal                                  *)
(***************************************************************************)
\* Perform::print
print(T, c) == write_char(T, c)

\* Mutant of execute: HT goes to the last column
execute_TabToEnd(T, byte) ==
    CASE byte = 10 -> newline(T)
      [] byte = 13 -> [T EXCEPT !.cursor.col = 0]
      [] byte = 9 -> [T EXCEPT !.cursor.col = T.cols - 1]
      [] byte = 8 -> write_char(T, 8)
      [] OTHER -> T

\* Perform::execute
execute(T, byte) ==
    CASE byte = 10 -> newline(T)
      [] byte = 13 -> [T EXCEPT !.cursor.col = 0]
      [] byte = 9 -> write_char(T, 9)
      [] byte = 8 -> write_char(T, 8)
      [] OTHER -> T

Min(a, b) == IF a < b THEN a ELSE b
Max(a, b) == IF a > b THEN a ELSE b

\* Mutant of saturating_sub: the difference is not held at 0
saturating_sub_Unheld(a, b) == a - b

\* usize::saturating_sub
saturating_sub(a, b) == IF a >= b THEN a - b ELSE 0

\* params.get(k).copied().unwrap_or(d)
ParamOr(params, k, d) == IF k < Len(params) THEN Param(params, k) ELSE d

\* Mutant of EraseInLine: mode 1 stops before the cursor's column
EraseInLine_Exclusive(T, mode) ==
    IF T.cursor.row < Len(T.grid.rows)
    THEN LET row == T.grid.rows[T.cursor.row + 1]
             row1 == CASE mode = 0 -> ResetCols(row, T.cursor.col, T.cols)
                       [] mode = 1 -> ResetCols(row, 0, T.cursor.col)
                       [] mode = 2 -> Row_clear(row)
                       [] OTHER -> row
         IN [T EXCEPT !.grid.rows[T.cursor.row + 1] = [row1 EXCEPT !.dirty = TRUE]]
    ELSE T

\* csi_dispatch 'K': erase in line
EraseInLine(T, mode) ==
    IF T.cursor.row < Len(T.grid.rows)
    THEN LET row == T.grid.rows[T.cursor.row + 1]
             row1 == CASE mode = 0 -> ResetCols(row, T.cursor.col, T.cols)
                       [] mode = 1 -> ResetCols(row, 0, T.cursor.col + 1)
                       [] mode = 2 -> Row_clear(row)
                       [] OTHER -> row
         IN [T EXCEPT !.grid.rows[T.cursor.row + 1] = [row1 EXCEPT !.dirty = TRUE]]
    ELSE T

\* csi_dispatch 'J': erase in display
EraseInDisplay(T, mode) ==
    CASE mode = 0 -> [T EXCEPT !.grid = clear_to_end(T.grid, T.cursor.row, T.cursor.col)]
      [] mode = 1 ->
            IF clear_from_start_panics(T.grid, T.cursor.row, T.cursor.col)
            THEN Panic([T EXCEPT !.grid = clear_from_start_unwound(T.grid, T.cursor.row)])
            ELSE [T EXCEPT !.grid = clear_from_start(T.grid, T.cursor.row, T.cursor.col)]
      [] mode \in {2, 3} -> [T EXCEPT !.grid = clear(T.grid)]
      [] OTHER -> T

\* Mutant of SaveCursor: only the position is saved, with the default style
SaveCursor_PositionOnly(T) ==
    [T EXCEPT !.saved_cursor = Some(reset_style(T.cursor))]

\* csi_dispatch 's': save the cursor (position and style)
SaveCursor(T) == [T EXCEPT !.saved_cursor = Some(T.cursor)]

\* csi_dispatch 'u': restore the saved cursor
RestoreCursor(T) ==
    IF T.saved_cursor.some THEN [T EXCEPT !.cursor = T.saved_cursor.val] ELSE T

\* Perform::csi_dispatch; c is the final byte
csi_dispatch(T, params, c) ==
    LET n == Max(ParamOr(params, 0, 1), 1)
    IN CASE c = 65 (* A *) ->
              [T EXCEPT !.cursor.row = saturating_sub(T.cursor.row, n)]
         [] c = 66 (* B *) ->
              IF T.rows = 0 THEN Panic(T)
              ELSE [T EXCEPT !.cursor.row = Min(T.cursor.row + n, T.rows - 1)]
         [] c = 67 (* C *) ->
              IF T.cols = 0 THEN Panic(T)
              ELSE [T EXCEPT !.cursor.col = Min(T.cursor.col + n, T.cols - 1)]
         [] c = 68 (* D *) ->
              [T EXCEPT !.cursor.col = saturating_sub(T.cursor.col, n)]
         [] c \in {72, 102} (* H f *) ->
              LET row == Max(ParamOr(params, 0, 1), 1) - 1
                  col == Max(ParamOr(params, 1, 1), 1) - 1
              IN IF T.rows = 0 \/ T.cols = 0 THEN Panic(T)
                 ELSE [T EXCEPT !.cursor.row = Min(row, T.rows - 1),
                                !.cursor.col = Min(col, T.cols - 1)]
         [] c = 74 (* J *) -> EraseInDisplay(T, ParamOr(params, 0, 0))
         [] c = 75 (* K *) -> EraseInLine(T, ParamOr(params, 0, 0))
         [] c = 109 (* m *) -> handle_sgr(T, params)
         [] c = 115 (* s *) -> SaveCursor(T)
         [] c = 117 (* u *) -> RestoreCursor(T)
         [] OTHER -> T

\* Mutant of esc_dispatch: ESC c resets the terminal
esc_dispatch_Reset(T, byte) ==
    IF byte = 99
    THEN [T EXCEPT !.grid = clear(T.grid), !.cursor = Cursor_new, !.saved_cursor = None]
    ELSE T

\* Perform::esc_dispatch
esc_dispatch(T, byte) == T

\* Perform::hook, Perform::put, Perform::unhook (DCS) and
\* Perform::osc_dispatch: empty bodies
hook(T, c) == T
put(T, byte) == T
unhook(T) == T
osc_dispatch(T) == T

(***************************************************************************)
(* The byte parser (parser.rs: AnsiParser wraps the VT500 state machine of *)
(* section 4.2).  One byte either moves the machine quietly or performs    *)
(* exactly one dispatch on the terminal.  Modelled: ground, escape, escape *)
(* intermediate, the CSI states, the OSC, DCS and SOS/PM/APC string states *)
(* and UTF-8 sequences of two, three and four bytes.  In the state "Utf8"  *)
(* the field tail is the state of the UTF-8 decoder and the field lead is  *)
(* the scalar decoded so far.  The fields params, current_subparams and    *)
(* subparams are the parser's parameter list.  The state "Hung" stands for *)
(* a dispatch that never returns.                                          *)
(***************************************************************************)
\* The states inside an OSC, DCS or SOS/PM/APC string
StringStates ==
    {"OscString", "DcsEntry", "DcsParam", "DcsIntermediate", "DcsPassthrough",
     "DcsIgnore", "SosPmApcString"}

\* C0 controls other than CAN, SUB and ESC: executed in the ground, escape
\* and CSI states
IsC0Execute(b) == (b >= 0 /\ b <= 23) \/ b = 25 \/ (b >= 28 /\ b <= 31)

\* Upper bound of one CSI parameter (u16, saturating)
ParamAdd(param, digit) == Min(param * 10 + digit, 65535)

\* Entry action of the escape, CSI-entry and DCS-entry states: forget the
\* parameters.  Params::clear resets the length and the count of open
\* subparameters; the group lengths in subparams stay as they are.
ParserClear(P, state) ==
    [P EXCEPT !.state = state, !.params = <<>>, !.param = 0, !.current_subparams = 0]

\* The parser back in the ground state.  The parameters are forgotten here
\* already (the parser forgets them when the next sequence starts and does
\* not read them in between); the group lengths stay.
ParserGround(P) == [AnsiParser_new EXCEPT !.subparams = P.subparams]

\* Params::push: the value closes the open group; the length of the group
\* is written at the index of its first value
ParamsPush(P, item) ==
    [P EXCEPT !.subparams[Len(P.params) - P.current_subparams + 1] =
                  P.current_subparams + 1,
              !.params = Append(P.params, item),
              !.current_subparams = 0]

\* Params::extend: the value is added to the open group, whose length is
\* not written
ParamsExtend(P, item) ==
    [P EXCEPT !.params = Append(P.params, item),
              !.current_subparams = P.current_subparams + 1]

\* ParamsIter::next, repeated from index on: TRUE when the iteration never
\* ends.  Each step yields the group of subparams[index] values and moves on
\* by as many; with a length of 0 at an index below the number of values it
\* yields the empty group for ever.  The length read is the one written by
\* the latest push at that index, of this sequence or of an earlier one.
RECURSIVE ParamsLoops(_, _)
ParamsLoops(P, index) ==
    IF index >= Len(P.params) THEN FALSE
    ELSE IF P.subparams[index + 1] = 0 THEN TRUE
    ELSE ParamsLoops(P, index + P.subparams[index + 1])

\* The parameters at a dispatch: the last one is closed unless MAX_PARAMS
\* values are kept already
ParamsAtDispatch(P) ==
    IF Len(P.params) = MAX_PARAMS THEN P ELSE ParamsPush(P, P.param)

\* Action Param, leading to the given state: a digit extends the current
\* parameter, ';' closes it and its group, ':' closes it inside its group
\* (params_to_vec flattens the groups, so the handler sees one list either
\* way).  Once MAX_PARAMS values are kept, further parameter bytes are
\* dropped.
ParserParam(P, b, state) ==
    IF Len(P.params) = MAX_PARAMS
    THEN [P EXCEPT !.state = state]
    ELSE IF b = 59
    THEN [ParamsPush(P, P.param) EXCEPT !.state = state, !.param = 0]
    ELSE IF b = 58
    THEN [ParamsExtend(P, P.param) EXCEPT !.state = state, !.param = 0]
    ELSE [P EXCEPT !.state = state, !.param = ParamAdd(P.param, b - 48)]

\* Action CsiDispatch: close the last parameter unless MAX_PARAMS values are
\* kept already, dispatch (the handler does not look at the ignore flag),
\* return to ground.  csi_dispatch starts with params_to_vec, which iterates
\* over the groups: when that iteration never ends the call never returns,
\* and the parser is left in the state "Hung", from which nothing moves.
ParserCsiDispatch(T, b) ==
    LET P1 == ParamsAtDispatch(T.parser)
    IN IF ParamsLoops(P1, 0)
       THEN [T EXCEPT !.parser = [P1 EXCEPT !.state = "Hung"]]
       ELSE [csi_dispatch(T, P1.params, b) EXCEPT !.parser = ParserGround(P1)]

\* Action Hook: close the last parameter unless MAX_PARAMS values are kept
\* already, and call the handler, which does not read the parameters
ParserHook(T, b) ==
    [hook(T, b) EXCEPT
        !.parser = [ParamsAtDispatch(T.parser) EXCEPT !.state = "DcsPassthrough"]]

\* Action EscDispatch
ParserEscDispatch(T, b) ==
    [esc_dispatch(T, b) EXCEPT !.parser = ParserGround(T.parser)]

\* The exit action of the state that a CAN, SUB or ESC leaves: the end of an
\* OSC string dispatches it, the end of a DCS passthrough unhooks
ParserExit(T) ==
    CASE T.parser.state = "OscString" -> osc_dispatch(T)
      [] T.parser.state = "DcsPassthrough" -> unhook(T)
      [] OTHER -> T

\* UTF-8, the lead byte b (0xC2..0xF4): the decoder state it leads to and
\* the bits of the scalar it carries
Utf8Begin(b) ==
    CASE b >= 194 /\ b <= 223 -> [tail |-> "Tail1", lead |-> (b % 32) * 64]
      [] b = 224 -> [tail |-> "U3_2_e0", lead |-> (b % 16) * 4096]
      [] b = 237 -> [tail |-> "U3_2_ed", lead |-> (b % 16) * 4096]
      [] b >= 225 /\ b <= 239 /\ b # 237 -> [tail |-> "Tail2", lead |-> (b % 16) * 4096]
      [] b = 240 -> [tail |-> "Utf8_4_3_f0", lead |-> (b % 8) * 262144]
      [] b = 244 -> [tail |-> "Utf8_4_3_f4", lead |-> (b % 8) * 262144]
      [] OTHER -> [tail |-> "Tail3", lead |-> (b % 8) * 262144]

\* UTF-8, a byte b after the lead byte: the decoder state it leads to
\* ("Ground" when the scalar is complete), or "Invalid" when b cannot follow
\* (no continuation byte, an overlong form, a surrogate, past U+10FFFF)
Utf8Next(tail, b) ==
    CASE tail = "Tail1" /\ b >= 128 /\ b <= 191 -> "Ground"
      [] tail = "Tail2" /\ b >= 128 /\ b <= 191 -> "Tail1"
      [] tail = "Tail3" /\ b >= 128 /\ b <= 191 -> "Tail2"
      [] tail = "U3_2_e0" /\ b >= 160 /\ b <= 191 -> "Tail1"
      [] tail = "U3_2_ed" /\ b >= 128 /\ b <= 159 -> "Tail1"
      [] tail = "Utf8_4_3_f0" /\ b >= 144 /\ b <= 191 -> "Tail2"
      [] tail = "Utf8_4_3_f4" /\ b >= 128 /\ b <= 143 -> "Tail2"
      [] OTHER -> "Invalid"

\* UTF-8, a byte b in the state "Utf8": the complete scalar is printed and
\* so is U+FFFD for a byte that cannot follow (the byte is consumed); both
\* return to ground.  Otherwise the six bits of b are added to the scalar.
Utf8Step(T, b) ==
    LET P == T.parser
        nx == Utf8Next(P.tail, b)
    IN CASE nx = "Invalid" -> [print(T, 65533) EXCEPT !.parser = ParserGround(P)]
         [] nx = "Ground" -> [print(T, P.lead + (b % 64)) EXCEPT !.parser = ParserGround(P)]
         [] OTHER ->
              [T EXCEPT !.parser.tail = nx,
                        !.parser.lead = P.lead + (b % 64) * (IF nx = "Tail2" THEN 4096 ELSE 64)]

\* AnsiParser::advance: one byte through the state machine, with the
\* terminal as the handler
advance(T, b) ==
    LET P == T.parser
    IN CASE P.state = "Hung" -> T
         [] P.state = "Utf8" -> Utf8Step(T, b)
         [] P.state # "Utf8" /\ b \in {24, 26} ->
              [execute(ParserExit(T), b) EXCEPT !.parser = ParserGround(P)]
         [] P.state # "Utf8" /\ b = 27 ->
              [ParserExit(T) EXCEPT !.parser = ParserClear(P, "Escape")]
         [] P.state = "OscString" /\ b = 7 ->
              [osc_dispatch(T) EXCEPT !.parser = ParserGround(P)]
         [] P.state \in {"DcsPassthrough", "DcsIgnore", "SosPmApcString"} /\ b = 156 ->
              [ParserExit(T) EXCEPT !.parser = ParserGround(P)]
         [] P.state = "DcsPassthrough" /\ (IsC0Execute(b) \/ (b >= 32 /\ b <= 126)) ->
              put(T, b)
         [] P.state \in StringStates \ {"DcsPassthrough"} /\ IsC0Execute(b) -> T
         [] P.state \notin StringStates \cup {"Utf8"} /\ IsC0Execute(b) -> execute(T, b)
         [] P.state = "Ground" /\ b >= 32 /\ b <= 127 -> print(T, b)
         [] P.state = "Ground" /\ b >= 194 /\ b <= 244 ->
              [T EXCEPT !.parser.state = "Utf8",
                        !.parser.tail = Utf8Begin(b).tail,
                        !.parser.lead = Utf8Begin(b).lead]
         [] P.state = "Escape" /\ b = 91 ->
              [T EXCEPT !.parser = ParserClear(P, "CsiEntry")]
         [] P.state = "Escape" /\ b = 93 ->
              [T EXCEPT !.parser.state = "OscString"]
         [] P.state = "Escape" /\ b = 80 ->
              [T EXCEPT !.parser = ParserClear(P, "DcsEntry")]
         [] P.state = "Escape" /\ b \in {88, 94, 95} ->
              [T EXCEPT !.parser.state = "SosPmApcString"]
         [] P.state = "Escape" /\ b >= 32 /\ b <= 47 ->
              [T EXCEPT !.parser.state = "EscapeIntermediate"]
         [] P.state = "Escape" /\ b >= 48 /\ b <= 126 /\ b \notin {80, 88, 91, 93, 94, 95} ->
              ParserEscDispatch(T, b)
         [] P.state = "EscapeIntermediate" /\ b >= 48 /\ b <= 126 ->
              ParserEscDispatch(T, b)
         [] P.state \in {"CsiEntry", "CsiParam"} /\ b >= 48 /\ b <= 59 ->
              [T EXCEPT !.parser = ParserParam(P, b, "CsiParam")]
         [] P.state = "CsiEntry" /\ b >= 60 /\ b <= 63 ->
              [T EXCEPT !.parser.state = "CsiParam"]
         [] P.state = "CsiParam" /\ b >= 60 /\ b <= 63 ->
              [T EXCEPT !.parser.state = "CsiIgnore"]
         [] P.state \in {"CsiEntry", "CsiParam"} /\ b >= 32 /\ b <= 47 ->
              [T EXCEPT !.parser.state = "CsiIntermediate"]
         [] P.state = "CsiIntermediate" /\ b >= 48 /\ b <= 63 ->
              [T EXCEPT !.parser.state = "CsiIgnore"]
         [] P.state \in {"CsiEntry", "CsiParam", "CsiIntermediate"} /\ b >= 64 /\ b <= 126 ->
              ParserCsiDispatch(T, b)
         [] P.state = "CsiIgnore" /\ b >= 64 /\ b <= 126 ->
              [T EXCEPT !.parser = ParserGround(P)]
         [] P.state \in {"DcsEntry", "DcsParam"} /\ b >= 48 /\ b <= 59 ->
              [T EXCEPT !.parser = ParserParam(P, b, "DcsParam")]
         [] P.state = "DcsEntry" /\ b >= 60 /\ b <= 63 ->
              [T EXCEPT !.parser.state = "DcsParam"]
         [] P.state = "DcsParam" /\ b >= 60 /\ b <= 63 ->
              [T EXCEPT !.parser.state = "DcsIgnore"]
         [] P.state \in {"DcsEntry", "DcsParam"} /\ b >= 32 /\ b <= 47 ->
              [T EXCEPT !.parser.state = "DcsIntermediate"]
         [] P.state = "DcsIntermediate" /\ b >= 48 /\ b <= 63 ->
              [T EXCEPT !.parser.state = "DcsIgnore"]
         [] P.state \in {"DcsEntry", "DcsParam", "DcsIntermediate"} /\ b >= 64 /\ b <= 126 ->
              ParserHook(T, b)
         [] OTHER -> T

\* The call on the terminal has panicked, or it never returns
Stopped(T) == T.panicked \/ T.parser.state = "Hung"

\* The for loop of Terminal::process_bytes: every byte in order through the
\* parser.  A panic ends the call; a dispatch that never returns keeps the
\* later bytes from the parser.
RECURSIVE AdvanceAll(_, _)
AdvanceAll(T, bytes) ==
    IF bytes = <<>> \/ Stopped(T) THEN T
    ELSE AdvanceAll(advance(T, Head(bytes)), Tail(bytes))

\* Mutant of process_bytes: every call starts with a fresh parser
process_bytes_FreshParser(T, bytes) ==
    AdvanceAll([T EXCEPT !.parser = AnsiParser_new], bytes)

\* Terminal::process_bytes: the parser is taken out of the terminal, fed,
\* and put back, so its state is carried to the next call
process_bytes(T, bytes) == AdvanceAll(T, bytes)

(***************************************************************************)
(* ffi.rs and the PTY calls.  The terminal pointer is non-null; the        *)
(* outcome of the operating system's read or write on the PTY is an input. *)
(***************************************************************************)
\* `*named as usize`: the discriminant of a NamedColor
NamedColor_index(n) ==
    CASE n = "Black" -> 0 [] n = "Red" -> 1 [] n = "Green" -> 2 [] n = "Yellow" -> 3
      [] n = "Blue" -> 4 [] n = "Magenta" -> 5 [] n = "Cyan" -> 6 [] n = "White" -> 7
      [] n = "BrightBlack" -> 8 [] n = "BrightRed" -> 9 [] n = "BrightGreen" -> 10
      [] n = "BrightYellow" -> 11 [] n = "BrightBlue" -> 12
      [] n = "BrightMagenta" -> 13 [] n = "BrightCyan" -> 14
      [] n = "BrightWhite" -> 15 [] n = "Foreground" -> 16 [] n = "Background" -> 17

\* named_color_to_rgb
named_color_to_rgb(color) ==
    CASE color = 0 -> <<0, 0, 0>>
      [] color = 1 -> <<205, 49, 49>>
      [] color = 2 -> <<13, 188, 121>>
      [] color = 3 -> <<229, 229, 16>>
      [] color = 4 -> <<36, 114, 200>>
      [] color = 5 -> <<188, 63, 188>>
      [] color = 6 -> <<17, 168, 205>>
      [] color = 7 -> <<229, 229, 229>>
      [] color = 8 -> <<102, 102, 102>>
      [] color = 9 -> <<241, 76, 76>>
      [] color = 10 -> <<35, 209, 139>>
      [] color = 11 -> <<245, 245, 67>>
      [] color = 12 -> <<59, 142, 234>>
      [] color = 13 -> <<214, 112, 214>>
      [] color = 14 -> <<41, 184, 219>>
      [] color = 15 -> <<255, 255, 255>>
      [] color = 16 -> <<200, 200, 200>>
      [] color = 17 -> <<20, 20, 20>>
      [] OTHER -> <<200, 200, 200>>

\* color_to_rgb
color_to_rgb(color) ==
    CASE color[1] = "Spec" -> <<color[2], color[3], color[4]>>
      [] color[1] = "Spec256" ->
            IF color[2] < 16 THEN named_color_to_rgb(color[2])
            ELSE IF color[2] < 232
            THEN <<((color[2] - 16) \div 36) * 51,
                   (((color[2] - 16) % 36) \div 6) * 51,
                   ((color[2] - 16) % 6) * 51>>
            ELSE <<(color[2] - 232) * 10 + 8, (color[2] - 232) * 10 + 8,
                   (color[2] - 232) * 10 + 8>>
      [] color[1] = "Named" -> named_color_to_rgb(NamedColor_index(color[2]))

\* The fields of a CCell
CCell(ch, fg, bg, flags) ==
    [ch |-> ch, fg_r |-> fg[1], fg_g |-> fg[2], fg_b |-> fg[3],
     bg_r |-> bg[1], bg_g |-> bg[2], bg_b |-> bg[3], flags |-> flags]

\* impl From<&Cell> for CCell
CCell_from(cell) ==
    CCell(cell.c, color_to_rgb(cell.fg), color_to_rgb(cell.bg), cell.flags)

\* terminal_get_cell
terminal_get_cell(T, row, col) ==
    IF get_cell(T.grid, row, col).some
    THEN CCell_from(get_cell(T.grid, row, col).val)
    ELSE CCell(32, <<200, 200, 200>>, <<0, 0, 0>>, 0)

\* Pty::write / Pty::read: the io::Result of the operating system's call,
\* which returns -1 on an error and else the number of bytes
pty_io(os) == IF os < 0 THEN "Err" ELSE "Ok"

\* Terminal::send_input: Ok(()) without a PTY, else the result of the write
send_input(attached, os) == IF attached THEN pty_io(os) ELSE "Ok"

\* terminal_send_input
terminal_send_input(attached, os) ==
    IF send_input(attached, os) = "Ok" THEN 0 ELSE -1

\* terminal_read_pty
terminal_read_pty(attached, os) ==
    IF attached
    THEN IF pty_io(os) = "Ok" THEN os ELSE -1
    ELSE -1

(***************************************************************************)
(* The state machine: a terminal driven by its embedder                    *)
(***************************************************************************)
VARIABLES
    grid,           \* Terminal.grid
    cursor,         \* Terminal.cursor
    saved_cursor,   \* Terminal.saved_cursor
    parser,         \* Terminal.parser
    rows,           \* Terminal.rows
    cols,           \* Terminal.cols
    panicked,       \* a call on the terminal has panicked
    saved_at,       \* history: the cursor at the latest CSI s dispatch
    resized_since,  \* history: resize was called after the latest CSI s
    restored,       \* history (SpecStyle): the latest call ended with a CSI u
                    \* dispatch that found a saved cursor and moved the cursor
    fed,            \* history (SpecChunk): the byte strings of the calls so far
    last_call,      \* history: the latest call, when it is one a claim is about,
                    \* with the terminal as it was before the call
    ret,            \* the value returned by the latest call that returns one
    pty             \* Terminal.pty: whether a PTY is attached

vars == <<grid, cursor, saved_cursor, parser, rows, cols, panicked,
          saved_at, resized_since, restored, fed, last_call, ret, pty>>

\* No call on the terminal has panicked and every call has returned
Alive == ~panicked /\ parser.state # "Hung"

\* The terminal as one value
Term ==
    [grid |-> grid, cursor |-> cursor, saved_cursor |-> saved_cursor,
     parser |-> parser, rows |-> rows, cols |-> cols, panicked |-> panicked]

SetTerm(T) ==
    /\ grid' = T.grid
    /\ cursor' = T.cursor
    /\ saved_cursor' = T.saved_cursor
    /\ parser' = T.parser
    /\ rows' = T.rows
    /\ cols' = T.cols
    /\ panicked' = T.panicked

\* The sizes a terminal is created with or resized to
Sizes == {sz \in (1..MaxRows) \X (1..MaxCols) : sz[1] * sz[2] <= MaxCells}

\* Byte strings given to process_bytes in one call
CSI(body) == <<27, 91>> \o body

\* a, LF, CR, BS, HT
TextInputs == { <<97>>, <<10>>, <<13>>, <<8>>, <<9>> }

\* CSI A, B, C, D, H, 2;2 f
MotionInputs ==
    { CSI(<<65>>), CSI(<<66>>), CSI(<<67>>), CSI(<<68>>), CSI(<<72>>),
      CSI(<<50, 59, 50, 102>>) }

\* CSI J, 1 J, 2 J, K, 1 K, 2 K
EraseInputs ==
    { CSI(<<74>>), CSI(<<49, 74>>), CSI(<<50, 74>>),
      CSI(<<75>>), CSI(<<49, 75>>), CSI(<<50, 75>>) }

\* CSI 1;31;44 m (bold, red on blue) and CSI m (reset)
SgrInputs == { CSI(<<49, 59, 51, 49, 59, 52, 52, 109>>), CSI(<<109>>) }

\* CSI s, CSI u
SaveInputs == { CSI(<<115>>), CSI(<<117>>) }

\* The sequences the recorded calls are cut from, each with the handler call
\* it ends in: a, LF, the three bytes of U+20AC, CSI 1 J, CSI 1 ; 4 m,
\* CSI 3 : 7 m, the OSC string ESC ] a BEL and the DCS string
\* ESC P : q a 0x9C.  No sequence begins another one.
ChunkTokens ==
    { [bytes |-> <<97>>, eff |-> "print", c |-> 97, params |-> <<>>],
      [bytes |-> <<10>>, eff |-> "execute", c |-> 10, params |-> <<>>],
      [bytes |-> <<226, 130, 172>>, eff |-> "print", c |-> 8364, params |-> <<>>],
      [bytes |-> <<27, 91, 49, 74>>, eff |-> "csi", c |-> 74, params |-> <<1>>],
      [bytes |-> <<27, 91, 49, 59, 52, 109>>, eff |-> "csi", c |-> 109, params |-> <<1, 4>>],
      [bytes |-> <<27, 91, 51, 58, 55, 109>>, eff |-> "csi", c |-> 109, params |-> <<3, 7>>],
      [bytes |-> <<27, 93, 97, 7>>, eff |-> "osc", c |-> 7, params |-> <<>>],
      [bytes |-> <<27, 80, 58, 113, 97, 156>>, eff |-> "dcs", c |-> 113, params |-> <<>>] }

\* p is the beginning of s
IsPrefix(p, s) == Len(p) <= Len(s) /\ SubSeq(s, 1, Len(p)) = p

\* The sequences of ChunkTokens that the bytes begin with
TokensAt(bytes) == { t \in ChunkTokens : IsPrefix(t.bytes, bytes) }

\* The bytes left after the whole sequences at their beginning
RECURSIVE Pending(_)
Pending(bytes) ==
    IF TokensAt(bytes) = {} THEN bytes
    ELSE LET t == CHOOSE t \in TokensAt(bytes) : TRUE
         IN Pending(SubSeq(bytes, Len(t.bytes) + 1, Len(bytes)))

\* The bytes that may follow the beginning p of a sequence of ChunkTokens
\* (p is empty between two sequences)
NextBytes(p) ==
    { t.bytes[Len(p) + 1] : t \in { u \in ChunkTokens : IsPrefix(p, u.bytes) /\ p # u.bytes } }

\* The byte strings of at most n bytes that one more call may bring after the
\* beginning p of a sequence: the sequences are cut anywhere
RECURSIVE ChunksAfter(_, _)
ChunksAfter(p, n) ==
    IF n = 0 THEN {}
    ELSE UNION { { <<b>> } \cup { <<b>> \o c : c \in ChunksAfter(Pending(Append(p, b)), n - 1) }
                 : b \in NextBytes(p) }

\* A CSI dispatch with final byte c happens when byte b reaches terminal T
IsCsiFinal(T, b, c) ==
    /\ T.parser.state \in {"CsiEntry", "CsiParam", "CsiIntermediate"}
    /\ b = c

\* History: the cursor at the latest CSI s among the bytes, else snap
RECURSIVE SavedAt(_, _, _)
SavedAt(T, bytes, snap) ==
    IF bytes = <<>> \/ Stopped(T) THEN snap
    ELSE SavedAt(advance(T, Head(bytes)), Tail(bytes),
                 IF IsCsiFinal(T, Head(bytes), 115) THEN Some(T.cursor) ELSE snap)

\* History: whether the bytes hold a CSI s dispatch
RECURSIVE HasSave(_, _)
HasSave(T, bytes) ==
    IF bytes = <<>> \/ Stopped(T) THEN FALSE
    ELSE IsCsiFinal(T, Head(bytes), 115) \/ HasSave(advance(T, Head(bytes)), Tail(bytes))

\* History: the last byte of the call is a CSI u dispatch that finds a saved
\* cursor different from the cursor
RECURSIVE EndsWithRestore(_, _)
EndsWithRestore(T, bytes) ==
    IF bytes = <<>> \/ Stopped(T) THEN FALSE
    ELSE IF Len(bytes) = 1
    THEN /\ IsCsiFinal(T, bytes[1], 117)
         /\ T.saved_cursor.some
         /\ T.saved_cursor.val # T.cursor
    ELSE EndsWithRestore(advance(T, Head(bytes)), Tail(bytes))

\* All bytes of a sequence of byte strings, in order
RECURSIVE Flatten(_)
Flatten(ss) == IF ss = <<>> THEN <<>> ELSE Head(ss) \o Flatten(Tail(ss))

\* A step that is not recorded in last_call and returns nothing
Unrecorded == last_call' = None /\ UNCHANGED <<ret, pty>>

\* History: the call is recorded when it is one of the calls in Recorded
Record(call, Recorded) ==
    last_call' = IF call \in Recorded
                 THEN Some([call |-> call, before |-> Term])
                 ELSE None

\* Terminal::new(r, c)
InitTerm(T) ==
    /\ grid = T.grid
    /\ cursor = T.cursor
    /\ saved_cursor = T.saved_cursor
    /\ parser = T.parser
    /\ rows = T.rows
    /\ cols = T.cols
    /\ panicked = T.panicked
    /\ saved_at = None
    /\ resized_since = FALSE
    /\ restored = FALSE
    /\ fed = <<>>
    /\ last_call = None
    /\ ret = None
    /\ pty = FALSE

Init == \E sz \in Sizes : InitTerm(Terminal_new(sz[1], sz[2], MaxScrollback))

\* terminal.process_bytes(bytes)
ProcessBytes(bytes) ==
    /\ Alive
    /\ SetTerm(process_bytes(Term, bytes))
    /\ saved_at' = SavedAt(Term, bytes, saved_at)
    /\ resized_since' = (resized_since /\ ~HasSave(Term, bytes))

\* terminal.resize(r, c)
Resize(r, c) ==
    /\ Alive
    /\ Len(grid_resize(grid, r, c).scrollback) <= MaxScrollback + MaxOverflow
    /\ SetTerm(resize(Term, r, c))
    /\ resized_since' = TRUE
    /\ UNCHANGED <<saved_at, restored, fed>>
    /\ Unrecorded

\* terminal.grid.mark_clean()
MarkClean ==
    /\ Alive
    /\ grid' = mark_clean(grid)
    /\ UNCHANGED <<cursor, saved_cursor, parser, rows, cols, panicked,
                   saved_at, resized_since, restored, fed>>
    /\ Unrecorded

\* The interpreter under resize: text, cursor motion, erase, save/restore
Feed ==
    \E bytes \in TextInputs \cup MotionInputs \cup EraseInputs \cup SaveInputs :
        ProcessBytes(bytes) /\ UNCHANGED <<restored, fed>> /\ Unrecorded

Resizing == \E sz \in Sizes : Resize(sz[1], sz[2])

Next == Feed \/ Resizing

Spec == Init /\ [][Next]_vars

\* Dirty tracking: text, cursor motion, erase, SGR and mark_clean
FeedDirty ==
    \E bytes \in TextInputs \cup MotionInputs \cup EraseInputs \cup SgrInputs :
        ProcessBytes(bytes) /\ UNCHANGED <<restored, fed>> /\ Unrecorded

NextDirty == FeedDirty \/ MarkClean

SpecDirty == Init /\ [][NextDirty]_vars

\* Cursor style and save/restore: text, cursor motion, erase, SGR, save/restore
FeedStyle ==
    \E bytes \in TextInputs \cup MotionInputs \cup EraseInputs \cup SgrInputs
                 \cup SaveInputs :
        /\ ProcessBytes(bytes)
        /\ restored' = EndsWithRestore(Term, bytes)
        /\ UNCHANGED fed
        /\ Unrecorded

NextStyle == FeedStyle

SpecStyle == Init /\ [][NextStyle]_vars

\* Recorded calls: a new terminal whose grid was marked clean is fed the
\* sequences of ChunkTokens in calls that may end anywhere, also inside a
\* sequence
StartChunk(r, c) ==
    LET T == Terminal_new(r, c, MaxScrollback)
    IN [T EXCEPT !.grid = mark_clean(T.grid)]

InitChunk == \E sz \in Sizes : InitTerm(StartChunk(sz[1], sz[2]))

FeedChunk ==
    \E bytes \in ChunksAfter(Pending(Flatten(fed)), MaxChunk) :
        /\ Len(Flatten(fed)) + Len(bytes) <= MaxFed
        /\ ProcessBytes(bytes)
        /\ fed' = Append(fed, bytes)
        /\ UNCHANGED restored
        /\ Unrecorded

NextChunk == FeedChunk

SpecChunk == InitChunk /\ [][NextChunk]_vars

\* Erase in display: a, LF, the styled SGR, CSI s, CSI C, CSI 2 J, CSI 3 J and
\* mark_clean; the two erases are recorded
ClearCalls == { CSI(<<50, 74>>), CSI(<<51, 74>>) }

ClearInputs ==
    { <<97>>, <<10>>, CSI(<<49, 59, 51, 49, 59, 52, 52, 109>>), CSI(<<115>>),
      CSI(<<67>>) } \cup ClearCalls

FeedClear ==
    \E bytes \in ClearInputs :
        /\ ProcessBytes(bytes)
        /\ Record(bytes, ClearCalls)
        /\ UNCHANGED <<restored, fed, ret, pty>>

NextClear == FeedClear \/ MarkClean

SpecClear == Init /\ [][NextClear]_vars

\* Printing and line feeds: a, LF, VT, FF, CR, the styled SGR and mark_clean;
\* the print and the three line controls are recorded
LineCalls == { <<97>>, <<10>>, <<11>>, <<12>> }

LineInputs ==
    LineCalls \cup { <<13>>, CSI(<<49, 59, 51, 49, 59, 52, 52, 109>>) }

FeedLine ==
    \E bytes \in LineInputs :
        /\ ProcessBytes(bytes)
        /\ Record(bytes, LineCalls)
        /\ UNCHANGED <<restored, fed, ret, pty>>

NextLine == FeedLine \/ MarkClean

SpecLine == Init /\ [][NextLine]_vars

\* The C interface: a terminal created by terminal_new or
\* terminal_new_with_pty is fed a, LF and the styled SGR, and its cells and
\* its PTY are read through the interface
FfiInputs == { <<97>>, <<10>>, CSI(<<49, 59, 51, 49, 59, 52, 52, 109>>) }

\* The outcomes of the operating system's read or write: -1 (an error) or
\* the number of bytes transferred
OsOutcomes == (-1)..MaxIo

InitFfi ==
    \E sz \in Sizes : \E attached \in BOOLEAN :
        LET T == Terminal_new(sz[1], sz[2], MaxScrollback)
        IN /\ grid = T.grid
           /\ cursor = T.cursor
           /\ saved_cursor = T.saved_cursor
           /\ parser = T.parser
           /\ rows = T.rows
           /\ cols = T.cols
           /\ panicked = T.panicked
           /\ saved_at = None
           /\ resized_since = FALSE
           /\ restored = FALSE
           /\ fed = <<>>
           /\ last_call = None
           /\ ret = None
           /\ pty = attached

\* A call of the interface that returns a value and leaves the terminal as
\* it is
Returns(fn, args, out) ==
    /\ Alive
    /\ ret' = Some([fn |-> fn, args |-> args, out |-> out])
    /\ UNCHANGED <<grid, cursor, saved_cursor, parser, rows, cols, panicked,
                   saved_at, resized_since, restored, fed, last_call, pty>>

FeedFfi ==
    \E bytes \in FfiInputs :
        /\ ProcessBytes(bytes)
        /\ ret' = None
        /\ UNCHANGED <<restored, fed, last_call, pty>>

GetCell ==
    \E row \in 0..MaxRows : \E col \in 0..MaxCols :
        Returns("terminal_get_cell", <<row, col>>, terminal_get_cell(Term, row, col))

SendInput ==
    \E os \in OsOutcomes :
        \/ Returns("send_input", <<os>>, send_input(pty, os))
        \/ Returns("terminal_send_input", <<os>>, terminal_send_input(pty, os))

ReadPty ==
    \E os \in OsOutcomes :
        Returns("terminal_read_pty", <<os>>, terminal_read_pty(pty, os))

NextFfi == FeedFfi \/ GetCell \/ SendInput \/ ReadPty

SpecFfi == InitFfi /\ [][NextFfi]_vars

\* Extended colours: SGR 38;5;n, 48;5;n, 38;2;r;g;b and 48;2;r;g;b with
\* parameters at and above the top of the 8-bit range, and the SGR reset
SgrValues == {255, 300}

\* The decimal digits of n as bytes
RECURSIVE Dec(_)
Dec(n) == IF n < 10 THEN <<48 + n>> ELSE Dec(n \div 10) \o <<48 + (n % 10)>>

\* ESC [ sel ; 5 ; v m
Sgr256(sel, v) == CSI(Dec(sel) \o <<59>> \o Dec(5) \o <<59>> \o Dec(v) \o <<109>>)

\* ESC [ sel ; 2 ; r ; g ; b m
SgrRgb(sel, r, g, b) ==
    CSI(Dec(sel) \o <<59>> \o Dec(2) \o <<59>> \o Dec(r) \o <<59>> \o Dec(g)
        \o <<59>> \o Dec(b) \o <<109>>)

SgrExtInputs ==
    { Sgr256(sel, v) : sel \in {38, 48}, v \in SgrValues }
    \cup { SgrRgb(sel, r, g, b) : sel \in {38, 48}, r \in SgrValues,
                                  g \in SgrValues, b \in SgrValues }

FeedSgr ==
    \E bytes \in SgrExtInputs \cup { CSI(<<109>>) } :
        /\ ProcessBytes(bytes)
        /\ Record(bytes, SgrExtInputs)
        /\ UNCHANGED <<restored, fed, ret, pty>>

NextSgr == FeedSgr

SpecSgr == Init /\ [][NextSgr]_vars

\* The grid's erase calls made directly on terminal.grid, with rows and
\* columns inside and past the grid, between prints, line feeds and mark_clean
GridInputs == { <<97>>, <<10>> }

FeedGrid ==
    \E bytes \in GridInputs :
        ProcessBytes(bytes) /\ UNCHANGED <<restored, fed>> /\ Unrecorded

\* A call on terminal.grid that changes the grid only, recorded
GridCall(fn, row, col, g) ==
    /\ Alive
    /\ grid' = g
    /\ last_call' = Some([call |-> [fn |-> fn, row |-> row, col |-> col],
                          before |-> Term])
    /\ UNCHANGED <<cursor, saved_cursor, parser, rows, cols, panicked,
                   saved_at, resized_since, restored, fed, ret, pty>>

\* terminal.grid.clear_to_end(row, col)
ClearToEnd ==
    \E row \in 0..(MaxRows - 1) : \E col \in 0..(MaxCols + 1) :
        GridCall("clear_to_end", row, col, clear_to_end(grid, row, col))

\* A call on terminal.grid that panics, recorded; g is the grid it leaves
GridPanic(fn, row, col, g) ==
    /\ Alive
    /\ grid' = g
    /\ panicked' = TRUE
    /\ last_call' = Some([call |-> [fn |-> fn, row |-> row, col |-> col],
                          before |-> Term])
    /\ UNCHANGED <<cursor, saved_cursor, parser, rows, cols,
                   saved_at, resized_since, restored, fed, ret, pty>>

\* terminal.grid.clear_from_start(row, col); it panics for a row past the
\* row after the last
ClearFromStart ==
    \E row \in 0..(MaxRows - 1) : \E col \in 0..(MaxCols + 1) :
        IF clear_from_start_panics(grid, row, col)
        THEN GridPanic("clear_from_start", row, col, clear_from_start_unwound(grid, row))
        ELSE GridCall("clear_from_start", row, col, clear_from_start(grid, row, col))

NextGrid == FeedGrid \/ ClearToEnd \/ ClearFromStart \/ MarkClean

SpecGrid == Init /\ [][NextGrid]_vars

\* Cursor motion between prints, the styled SGR, CSI s and mark_clean; the
\* motions of which the effect is stated are CSI A, B, C, D, H and f with
\* their parameters omitted, 0 and up to MaxRows.  A written parameter of -1
\* is an omitted one.
MotionParams == {-1} \cup (0..MaxRows)

\* The parameter bytes as sent: decimals separated by ';', nothing for an
\* omitted parameter
RECURSIVE ParamBytes(_)
ParamBytes(ps) ==
    IF ps = <<>> THEN <<>>
    ELSE (IF Head(ps) < 0 THEN <<>> ELSE Dec(Head(ps)))
         \o (IF Len(ps) > 1 THEN <<59>> \o ParamBytes(Tail(ps)) ELSE <<>>)

\* ESC [ params final
CsiSeq(ps, final) == CSI(ParamBytes(ps) \o <<final>>)

\* One relative motion (A, B, C, D with at most one parameter) or one
\* absolute motion (H, f with at most two)
MotionCalls ==
    { [final |-> f, params |-> ps] :
        f \in {65, 66, 67, 68},
        ps \in {<<>>} \cup { <<p>> : p \in MotionParams \ {-1} } }
    \cup
    { [final |-> 72, params |-> ps] :
        ps \in {<<>>} \cup { <<p>> : p \in {0, 2, MaxRows} }
               \cup { <<p, q>> : p \in {-1, 0, 2}, q \in {-1, 0, 2, MaxRows} } }
    \cup
    { [final |-> 102, params |-> ps] : ps \in {<<>>, <<2, 2>>, <<MaxRows>>} }

MotionCallBytes == { CsiSeq(m.params, m.final) : m \in MotionCalls }

\* The recorded motion: CSI 2 B
MotionRecorded == { CsiSeq(<<2>>, 66) }

MotionSliceInputs ==
    MotionInputs \cup MotionRecorded
    \cup { <<97>>, CSI(<<115>>), CSI(<<49, 59, 51, 49, 59, 52, 52, 109>>) }

FeedMotion ==
    \E bytes \in MotionSliceInputs :
        /\ ProcessBytes(bytes)
        /\ Record(bytes, MotionRecorded)
        /\ UNCHANGED <<restored, fed, ret, pty>>

NextMotion == FeedMotion \/ MarkClean

SpecMotion == Init /\ [][NextMotion]_vars

\* Tab stops: a terminal wider than one tab stop (and a narrow one) is fed CR,
\* BS and HT, which are recorded, at most MaxTabPrints prints, and mark_clean
TabStop == 8

TabSizes == { <<1, MaxCols>>, <<1, TabStop + 2>> }

TabCalls == { <<13>>, <<8>>, <<9>> }

InitTab == \E sz \in TabSizes : InitTerm(Terminal_new(sz[1], sz[2], MaxScrollback))

FeedTab ==
    \E bytes \in TabCalls :
        /\ ProcessBytes(bytes)
        /\ Record(bytes, TabCalls)
        /\ UNCHANGED <<restored, fed, ret, pty>>

\* A print, counted in fed
PrintTab ==
    /\ Len(fed) < MaxTabPrints
    /\ ProcessBytes(<<97>>)
    /\ fed' = Append(fed, <<97>>)
    /\ UNCHANGED restored
    /\ Unrecorded

NextTab == FeedTab \/ PrintTab \/ MarkClean

SpecTab == InitTab /\ [][NextTab]_vars

\* Erase: CSI J and CSI K with the mode omitted, 0, 1, 2 and (J) 3, between
\* prints, the styled SGR and cursor motions; CSI J and CSI 1 K are recorded
EraseCalls ==
    { [final |-> 74, params |-> ps] : ps \in {<<>>, <<0>>, <<1>>, <<2>>, <<3>>} }
    \cup { [final |-> 75, params |-> ps] : ps \in {<<>>, <<0>>, <<1>>, <<2>>} }

EraseCallBytes == { CsiSeq(e.params, e.final) : e \in EraseCalls }

EraseRecorded == { CsiSeq(<<>>, 74), CsiSeq(<<1>>, 75) }

EraseSliceInputs ==
    EraseCallBytes \cup MotionInputs
    \cup { <<97>>, CSI(<<49, 59, 51, 49, 59, 52, 52, 109>>) }

FeedErase ==
    \E bytes \in EraseSliceInputs :
        /\ ProcessBytes(bytes)
        /\ Record(bytes, EraseRecorded)
        /\ UNCHANGED <<restored, fed, ret, pty>>

NextErase == FeedErase

SpecErase == Init /\ [][NextErase]_vars

\* Extended colours in a parameter list: a terminal of one cell is fed SGR
\* sequences with and without the parameters that 38 and 48 need, the styled
\* SGR and CSI m; the extended-colour sequences are recorded.  The lists of
\* which the effect is stated are all the lists of 1..MaxParams parameters
\* over 38, 48, 5 and 2.
ExtAlphabet == {38, 48, 5, 2}

ExtLists ==
    UNION { [1..n -> ExtAlphabet] : n \in 1..MaxParams }

ExtRecorded ==
    { CsiSeq(ps, 109) :
        ps \in { <<38, 5, 2>>, <<48, 5>>, <<48, 2, 5, 38, 2>>, <<38, 2, 5, 48>>,
                 <<38, 48, 5, 5>> } }

InitExt == InitTerm(Terminal_new(1, 1, MaxScrollback))

FeedExt ==
    \E bytes \in ExtRecorded \cup SgrInputs :
        /\ ProcessBytes(bytes)
        /\ Record(bytes, ExtRecorded)
        /\ UNCHANGED <<restored, fed, ret, pty>>

NextExt == FeedExt

SpecExt == InitExt /\ [][NextExt]_vars

\* The number of iterations of the while loop of handle_sgr from index i
RECURSIVE SgrSteps(_, _)
SgrSteps(params, i) ==
    IF i < Len(params) THEN 1 + SgrSteps(params, SgrNext(params, i)) ELSE 0

\* SGR with the parameters of the style table: a terminal is fed prints, the
\* styled SGR, CSI s, mark_clean and the recorded CSI 22;97;105 m.  The lists
\* of which the effect is stated are the empty list, every single parameter
\* of the table, some parameters outside it, and lists of several parameters.
StyleCodes ==
    {0, 1, 3, 4, 5, 7, 9, 22, 23, 24, 25, 27, 29}
    \cup (30..37) \cup (40..47) \cup (90..97) \cup (100..107)

UnknownCodes == {2, 6, 8, 21, 39, 49, 98, 108}

StyleLists ==
    {<<>>} \cup { <<p>> : p \in StyleCodes \cup UnknownCodes }
    \cup { <<1, 0>>, <<0, 1>>, <<31, 0, 4>>, <<1, 22, 3>>, <<7, 97, 105, 27>>,
           <<4, 6, 36, 24, 9>> }

StyleRecorded ==
    { CsiSeq(<<22, 97, 105>>, 109) }

FeedSgrStyle ==
    \E bytes \in StyleRecorded
                 \cup { <<97>>, CSI(<<115>>), CSI(<<49, 59, 51, 49, 59, 52, 52, 109>>) } :
        /\ ProcessBytes(bytes)
        /\ Record(bytes, StyleRecorded)
        /\ UNCHANGED <<restored, fed, ret, pty>>

NextSgrStyle == FeedSgrStyle \/ MarkClean

SpecSgrStyle == Init /\ [][NextSgrStyle]_vars

\* The grid used directly, as the tests of grid.rs use it: a grid made by
\* Grid::new with a scrollback cap of MaxScrollback + 1 is written through
\* get_cell_mut, read with get_cell, scrolled up and down and marked clean.
\* ret holds what get_cell returned; fed holds the rows scrolled off since
\* the scrollback was last empty or scrolled down; get_cell_mut(1, 0) and
\* scroll_down are recorded.
ScrollCap == MaxScrollback + 1

InitRows == \E sz \in Sizes : InitTerm(Terminal_new(sz[1], sz[2], ScrollCap))

\* `if let Some(cell) = grid.get_cell_mut(row, col) { cell.c = ch }`
WriteThrough(g, row, col, ch) ==
    IF get_cell_mut_hit(g, row, col)
    THEN [get_cell_mut_grid(g, row) EXCEPT !.rows[row + 1].cells[col + 1].c = ch]
    ELSE get_cell_mut_grid(g, row)

RowsRecorded ==
    { [fn |-> "get_cell_mut", row |-> 1, col |-> 0],
      [fn |-> "scroll_down", row |-> 0, col |-> 0] }

\* A call on terminal.grid: the grid after it, what it returned, and the
\* scrolled-off rows
RowsCall(fn, row, col, g, r, f) ==
    /\ Alive
    /\ grid' = g
    /\ ret' = r
    /\ fed' = f
    /\ Record([fn |-> fn, row |-> row, col |-> col], RowsRecorded)
    /\ UNCHANGED <<cursor, saved_cursor, parser, rows, cols, panicked,
                   saved_at, resized_since, restored, pty>>

\* grid.get_cell_mut(row, col), and 'a' written through the cell on a hit
GetCellMut ==
    \E row \in 0..MaxRows : \E col \in 0..MaxCols :
        RowsCall("get_cell_mut", row, col, WriteThrough(grid, row, col, 97), None, fed)

\* grid.get_cell(row, col)
ReadCell ==
    \E row \in 0..MaxRows : \E col \in 0..MaxCols :
        RowsCall("get_cell", row, col, grid, get_cell(grid, row, col), fed)

\* grid.scroll_up(), at most MaxScrolled times in a row
ScrollUp ==
    /\ Len(fed) < MaxScrolled
    /\ RowsCall("scroll_up", 0, 0, scroll_up(grid), None, Append(fed, grid.rows[1]))

\* grid.scroll_down()
ScrollDown ==
    RowsCall("scroll_down", 0, 0, scroll_down(grid), None, scroll_down(grid).scrollback)

NextRows == GetCellMut \/ ReadCell \/ ScrollUp \/ ScrollDown \/ MarkClean

SpecRows == InitRows /\ [][NextRows]_vars

\* Redrawing after a resize: prints, resize and mark_clean
FeedRedraw ==
    ProcessBytes(<<97>>) /\ UNCHANGED <<restored, fed>> /\ Unrecorded

NextRedraw == FeedRedraw \/ Resizing \/ MarkClean

SpecRedraw == Init /\ [][NextRedraw]_vars

\* Ignored input: prints, the styled SGR, CSI s and mark_clean, and among
\* them the input the interpreter has no handler for; ESC c and an OSC title
\* string are recorded.
\* C0 controls other than CR, LF, VT, FF, BS, HT (and ESC, which opens a
\* sequence)
IgnoredC0 == { <<b>> : b \in (0..31) \ {8, 9, 10, 11, 12, 13, 27} }

\* The final bytes of CSI sequences that csi_dispatch has no arm for
OtherFinals == (64..126) \ {65, 66, 67, 68, 72, 102, 74, 75, 109, 115, 117}

\* CSI sequences with those final bytes: without parameters, with one and
\* two parameters, with a private marker (CSI ? 2 5 h) and with an
\* intermediate byte (CSI 2 SP q)
IgnoredCsi ==
    { CsiSeq(<<>>, f) : f \in OtherFinals }
    \cup { CsiSeq(ps, f) : ps \in {<<2>>, <<1, 2>>}, f \in {64, 71, 76, 104, 110, 126} }
    \cup { CSI(<<63, 50, 53, 104>>), CSI(<<50, 32, 113>>) }

\* ESC sequences: ESC and a final byte, and ESC ( B
IgnoredEsc ==
    { <<27, b>> : b \in (48..126) \ {80, 88, 91, 93, 94, 95} }
    \cup { <<27, 40, 66>> }

\* OSC strings ended by BEL and by ST (ESC \): ESC ] 0 ; a BEL, ESC ] a ESC \
OscTitle == <<27, 93, 48, 59, 97, 7>>
IgnoredOsc == { OscTitle, <<27, 93, 97, 27, 92>> }

\* DCS strings, hooked at the final byte, put byte by byte and unhooked at
\* the end: ESC P q a ESC \ and ESC P 1 ; 2 $ q a a ESC \, with parameters
\* and subparameters ESC P 1 : 2 q a ESC \, ESC P : q a 0x9C and
\* ESC P 1 ; 2 : 3 | a a 0x9C, ended by CAN ESC P q a CAN, and without data
\* ESC P @ 0x9C
IgnoredDcs ==
    { <<27, 80, 113, 97, 27, 92>>, <<27, 80, 49, 59, 50, 36, 113, 97, 97, 27, 92>>,
      <<27, 80, 49, 58, 50, 113, 97, 27, 92>>, <<27, 80, 58, 113, 97, 156>>,
      <<27, 80, 49, 59, 50, 58, 51, 124, 97, 97, 156>>,
      <<27, 80, 113, 97, 24>>, <<27, 80, 64, 156>> }

IgnoredInputs == IgnoredC0 \cup IgnoredCsi \cup IgnoredEsc \cup IgnoredOsc \cup IgnoredDcs

IgnoredRecorded == { <<27, 99>>, OscTitle }

IgnoreSliceInputs ==
    { <<97>>, CSI(<<115>>), CSI(<<49, 59, 51, 49, 59, 52, 52, 109>>),
      <<7>>, CSI(<<63, 50, 53, 104>>), <<27, 80, 113, 97, 27, 92>>,
      <<27, 80, 49, 58, 50, 113, 97, 27, 92>> }
    \cup IgnoredRecorded

FeedIgnore ==
    \E bytes \in IgnoreSliceInputs :
        /\ ProcessBytes(bytes)
        /\ Record(bytes, IgnoredRecorded)
        /\ UNCHANGED <<restored, fed, ret, pty>>

NextIgnore == FeedIgnore \/ MarkClean

SpecIgnore == Init /\ [][NextIgnore]_vars

\* The grid used directly through its scrolling, clearing and resizing calls:
\* a grid made by Grid::new is scrolled up and down, cleared (wholly, to the
\* end, from the start) and resized, also to another column count while the
\* scrollback holds rows.  Every call is recorded.
GridScrollUp == GridCall("scroll_up", 0, 0, scroll_up(grid))

GridScrollDown == GridCall("scroll_down", 0, 0, scroll_down(grid))

GridClear == GridCall("clear", 0, 0, clear(grid))

\* grid.resize(new_rows, new_cols); the recorded row and col are the new size
GridResize ==
    \E sz \in Sizes :
        /\ Len(grid_resize(grid, sz[1], sz[2]).scrollback) <= MaxScrollback + MaxOverflow
        /\ GridCall("resize", sz[1], sz[2], grid_resize(grid, sz[1], sz[2]))

NextWidth ==
    \/ GridScrollUp
    \/ GridScrollDown
    \/ GridClear
    \/ ClearToEnd
    \/ ClearFromStart
    \/ GridResize

SpecWidth == InitRows /\ [][NextWidth]_vars

\* Zero dimensions: terminal_new and terminal_resize pass any u16 on, so a
\* terminal is created with, and resized to, sizes with no row or no column
\* as well, and is given line feeds, prints, tabs and cursor motions
ZeroSizes == {sz \in (0..MaxRows) \X (0..MaxCols) : sz[1] * sz[2] <= MaxCells}

ZeroInputs ==
    { <<10>>, <<97>>, <<9>>, CSI(<<66>>), CSI(<<67>>), CSI(<<72>>) }

InitZero == \E sz \in ZeroSizes : InitTerm(Terminal_new(sz[1], sz[2], MaxScrollback))

FeedZero ==
    \E bytes \in ZeroInputs :
        ProcessBytes(bytes) /\ UNCHANGED <<restored, fed>> /\ Unrecorded

ResizeZero == \E sz \in ZeroSizes : Resize(sz[1], sz[2])

NextZero == FeedZero \/ ResizeZero

SpecZero == InitZero /\ [][NextZero]_vars

(***************************************************************************)
(* Claims                                                                  *)
(***************************************************************************)
CsiU == CSI(<<117>>)
CsiS == CSI(<<115>>)

\* Some visible cell holds a printed character
SomePrinted ==
    \E i \in 1..Len(grid.rows) : \E j \in 1..Len(grid.rows[i].cells) :
        grid.rows[i].cells[j].c # 32

\* The parser is between two sequences: in the ground state with no
\* parameter kept
AtRest == parser = ParserGround(parser)

\* C1: after any sequence of process_bytes and resize calls the cursor is
\* inside the grid: 0 <= cursor.row < rows and 0 <= cursor.col < cols.
C1_CursorInBounds ==
    /\ 0 <= cursor.row /\ cursor.row < rows
    /\ 0 <= cursor.col /\ cursor.col < cols

\* C2: no print, execute or CSI dispatch panics in a state reached through
\* process_bytes and resize calls.
C2_NeverPanics == ~panicked

\* C3: the scrollback never holds more than max_scrollback rows.
C3_ScrollbackBounded == Len(grid.scrollback) <= grid.max_scrollback

\* C4: the grid has terminal.rows visible rows, and every visible row has
\* terminal.cols cells, which is also grid.cols.
C4_GridShape ==
    /\ Len(grid.rows) = rows
    /\ grid.cols = cols
    /\ \A i \in 1..Len(grid.rows) : Len(grid.rows[i].cells) = cols

\* C4 witness: the terminal was shrunk (only a resize lifts the scrollback
\* over its cap) and its width changed after a row went to the scrollback,
\* and a character was printed.
C4_Witness ==
    /\ Len(grid.scrollback) > grid.max_scrollback
    /\ \E i \in 1..Len(grid.scrollback) : Len(grid.scrollback[i].cells) # grid.cols
    /\ SomePrinted

\* C9: CSI u with a saved cursor restores the saved style and the saved
\* position clamped to the current bounds.
C9_RestoreClamps ==
    [][(saved_cursor.some /\ parser.state = "Ground" /\ ProcessBytes(CsiU)) =>
        /\ cursor'.row = Min(saved_cursor.val.row, rows - 1)
        /\ cursor'.col = Min(saved_cursor.val.col, cols - 1)
        /\ cursor'.fg = saved_cursor.val.fg
        /\ cursor'.bg = saved_cursor.val.bg
        /\ cursor'.flags = saved_cursor.val.flags]_vars

\* x occurs in sequence s / the number of times it does
InSeq(x, s) == \E i \in 1..Len(s) : s[i] = x
Count(x, s) == Cardinality({i \in 1..Len(s) : s[i] = x})

StrictlyAscending(s) == \A i \in 1..Len(s) : \A j \in 1..Len(s) : i < j => s[i] < s[j]

\* C5: between two mark_clean calls a row index that dirty_rows() reports is
\* still reported after every later process_bytes (print, LF and its scroll,
\* erase, cursor motion, SGR), as long as it is a valid row index.
C5_DirtyMonotonic ==
    [][FeedDirty =>
        \A i \in 1..Len(grid.rows) :
            (grid.rows[i].dirty /\ i <= Len(grid'.rows)) => InSeq(i - 1, dirty_rows(grid'))]_vars

\* C6: after every process_bytes, every visible row whose cells differ from
\* the cells shown at the same index before is in dirty_rows().
C6_DirtyComplete ==
    [][FeedDirty =>
        \A i \in 1..Len(grid'.rows) :
            (i <= Len(grid.rows) /\ grid'.rows[i].cells # grid.rows[i].cells)
                => InSeq(i - 1, dirty_rows(grid'))]_vars

\* C7: right after mark_clean() dirty_rows() is empty, and stays empty when
\* no byte is processed; printing one printable character on a clean grid
\* with the cursor in bounds then gives a strictly ascending list of valid
\* row indices that holds the index of the written row exactly once (the row
\* the character was written to, at the index it has after the wrap's scroll
\* if there is one, and the cursor's row before the print).
C7_CleanThenPrint ==
    [][/\ MarkClean =>
            /\ dirty_rows(grid') = <<>>
            /\ dirty_rows(process_bytes([Term EXCEPT !.grid = grid'], <<>>).grid) = <<>>
       /\ (/\ dirty_rows(grid) = <<>>
           /\ parser.state = "Ground"
           /\ cursor.row < rows /\ cursor.col < cols
           /\ ProcessBytes(<<97>>)) =>
            LET d == dirty_rows(grid')
                scrolled == cursor.col + 1 >= cols /\ cursor.row + 1 >= rows
                held == IF scrolled THEN cursor.row - 1 ELSE cursor.row
            IN /\ StrictlyAscending(d)
               /\ \A i \in 1..Len(d) : 0 <= d[i] /\ d[i] < rows
               /\ Count(cursor.row, d) = 1
               /\ held >= 0 =>
                    /\ grid'.rows[held + 1].cells[cursor.col + 1].c = 97
                    /\ Count(held, d) = 1]_vars

\* C7 witness: a two-row terminal whose only dirty row is row 1, which holds
\* the character just printed left of the cursor.
C7_Witness ==
    /\ rows = 2 /\ cols = 2
    /\ dirty_rows(grid) = <<1>>
    /\ cursor.row = 1 /\ cursor.col = 1
    /\ grid.rows[2].cells[1].c = 97

\* C8: with no resize in between, CSI u brings the cursor's row, col, fg, bg
\* and flags back to their values at the moment of the latest CSI s, whatever
\* was processed in between; CSI u with no saved cursor changes nothing (of
\* the parser, all but the group lengths left behind by the sequence).
C8_SaveRestoreRoundTrip ==
    [][(parser.state = "Ground" /\ ProcessBytes(CsiU)) =>
        /\ (saved_at.some /\ ~resized_since) =>
              /\ cursor'.row = saved_at.val.row
              /\ cursor'.col = saved_at.val.col
              /\ cursor'.fg = saved_at.val.fg
              /\ cursor'.bg = saved_at.val.bg
              /\ cursor'.flags = saved_at.val.flags
        /\ ~saved_at.some =>
              /\ UNCHANGED <<grid, cursor, saved_cursor, rows, cols, panicked>>
              /\ [parser' EXCEPT !.subparams = parser.subparams] = parser]_vars

\* C8 witness: a CSI u has just moved the cursor back to a saved position
\* right of column 0 and brought back the saved bold red-on-blue style.
C8_Witness ==
    /\ restored
    /\ cursor = saved_at.val
    /\ cursor.col > 0
    /\ cursor.fg = Named("Red") /\ cursor.bg = Named("Blue") /\ cursor.flags = BOLD

\* The handler call that a whole sequence of ChunkTokens ends in, made on
\* the terminal directly
ChunkEffect(T, t) ==
    CASE t.eff = "print" -> print(T, t.c)
      [] t.eff = "execute" -> execute(T, t.c)
      [] t.eff = "csi" -> csi_dispatch(T, t.params, t.c)
      [] t.eff = "osc" -> osc_dispatch(T)
      [] t.eff = "dcs" -> unhook(put(hook(T, t.c), 97))

\* The terminal after the handler calls of the whole sequences that the
\* bytes begin with, in their order; the bytes of an unfinished sequence call
\* no handler
RECURSIVE Dispatched(_, _)
Dispatched(T, bytes) ==
    IF TokensAt(bytes) = {} THEN T
    ELSE LET t == CHOOSE t \in TokensAt(bytes) : TRUE
         IN Dispatched(ChunkEffect(T, t), SubSeq(bytes, Len(t.bytes) + 1, Len(bytes)))

\* C10: the terminal after the recorded calls, however the bytes were cut
\* into calls (also inside an escape sequence, a string or a UTF-8
\* character), is the terminal after one call with all the bytes; its grid
\* (cells, dirty flags, scrollback), cursor and saved cursor are those that
\* the handler calls of the whole sequences give, made in the order of the
\* bytes; and the parser is between sequences exactly when no sequence is
\* unfinished, so the bytes of an unfinished sequence were kept for the
\* next call.
C10_ChunkingIndependent ==
    LET start == StartChunk(rows, cols)
        want == Dispatched(start, Flatten(fed))
    IN /\ Term = process_bytes(start, Flatten(fed))
       /\ grid = want.grid
       /\ cursor = want.cursor
       /\ saved_cursor = want.saved_cursor
       /\ ~panicked
       /\ AtRest <=> Pending(Flatten(fed)) = <<>>

\* C10 witness: CSI 1 ; 4 m a came in four calls, three of which ended inside
\* the escape sequence (after ESC [, after the ';' and after the final byte),
\* and the 'a' was printed bold and underlined.
C10_Witness ==
    /\ fed = << <<27, 91>>, <<49, 59>>, <<52, 109>>, <<97>> >>
    /\ AtRest
    /\ grid.rows[1].cells[1].c = 97
    /\ grid.rows[1].cells[1].flags = BOLD + UNDERLINE
    /\ cursor.flags = BOLD + UNDERLINE

\* C11: after CSI 2 J or CSI 3 J (Grid::clear) every visible cell is the
\* default cell and every row is dirty, while the cursor (position and
\* style), the saved cursor and the scrollback are as before the call.
C11_ClearScreen ==
    (last_call.some /\ last_call.val.call \in ClearCalls) =>
        /\ \A i \in 1..Len(grid.rows) :
              /\ grid.rows[i].dirty
              /\ \A j \in 1..Len(grid.rows[i].cells) :
                    grid.rows[i].cells[j] = Cell_default
        /\ cursor = last_call.val.before.cursor
        /\ saved_cursor = last_call.val.before.saved_cursor
        /\ grid.scrollback = last_call.val.before.grid.scrollback

\* C11 witness: CSI 3 J has just cleared a grid that held a bold red-on-blue
\* 'a' and a clean row, with the cursor right of column 0 in that style, a
\* saved cursor and a row in the scrollback.
C11_Witness ==
    /\ last_call.some
    /\ last_call.val.call = CSI(<<51, 74>>)
    /\ \E i \in 1..Len(last_call.val.before.grid.rows) :
          /\ ~last_call.val.before.grid.rows[i].dirty
          /\ \E j \in 1..Len(last_call.val.before.grid.rows[i].cells) :
                /\ last_call.val.before.grid.rows[i].cells[j].c = 97
                /\ last_call.val.before.grid.rows[i].cells[j].flags = BOLD
    /\ cursor.col > 0 /\ cursor.fg = Named("Red")
    /\ saved_cursor.some
    /\ Len(grid.scrollback) = 1

\* The recorded call is a process_bytes of exactly these bytes
Called(bytes) == last_call.some /\ last_call.val.call = bytes

\* The terminal before the recorded call
Before == last_call.val.before

\* The grid g scrolled up by one line: row 0 is the scrollback tail (the head
\* is dropped when the cap is exceeded) and a fresh row is the bottom row
ScrolledByOne(g0, g1) ==
    /\ g1.rows = Tail(g0.rows) \o <<Row_new(g0.cols)>>
    /\ g1.scrollback \in { Append(g0.scrollback, g0.rows[1]),
                            Tail(Append(g0.scrollback, g0.rows[1])) }
    /\ Len(g1.scrollback) <= Max(g0.max_scrollback, Len(g0.scrollback))
    /\ Len(g1.scrollback) > 0
    /\ g1.scrollback[Len(g1.scrollback)] = g0.rows[1]

\* C12: LF behaves as CR+LF: it moves the cursor to column 0 of the next
\* row; on the last row the grid scrolls up by exactly one line (old row 0
\* goes to the scrollback tail) and the cursor stays on row rows-1.
C12_LfIsCrLf ==
    (Called(<<10>>) /\ Before.cursor.row < rows) =>
        /\ cursor.col = 0
        /\ IF Before.cursor.row = rows - 1
           THEN cursor.row = rows - 1 /\ ScrolledByOne(Before.grid, grid)
           ELSE cursor.row = Before.cursor.row + 1 /\ grid = Before.grid

\* C12 witness: LF was processed with the cursor right of column 0 on the
\* last row of a grid of two or more rows whose row 0 held an 'a'.
C12_Witness ==
    /\ Called(<<10>>)
    /\ rows >= 2
    /\ Before.cursor.row = rows - 1
    /\ Before.cursor.col > 0
    /\ Before.grid.rows[1].cells[1].c = 97
    /\ grid.scrollback[Len(grid.scrollback)].cells[1].c = 97

\* C13 (as stated): processing LF alone advances cursor.row (scrolling the
\* grid by one and clamping to rows-1 when it would reach rows) and leaves
\* cursor.col unchanged.
C13_LfKeepsColumn ==
    (Called(<<10>>) /\ Before.cursor.row < rows) =>
        /\ cursor.row = Min(Before.cursor.row + 1, rows - 1)
        /\ cursor.col = Before.cursor.col

\* C13 (amended): processing LF alone advances cursor.row, scrolling the grid
\* by one and clamping to rows-1 when it would reach rows, and sets
\* cursor.col to 0; the grid changes only when it scrolls, and the cursor's
\* style and the saved cursor are unchanged.
C13_LfResetsColumn ==
    (Called(<<10>>) /\ Before.cursor.row < rows) =>
        /\ cursor.row = Min(Before.cursor.row + 1, rows - 1)
        /\ cursor.col = 0
        /\ (Before.cursor.row + 1 < rows) => grid = Before.grid
        /\ (Before.cursor.row + 1 = rows) =>
              /\ Len(grid.rows) = rows
              /\ \A i \in 1..(rows - 1) : grid.rows[i] = Before.grid.rows[i + 1]
              /\ grid.rows[rows] = Row_new(cols)
              /\ Len(grid.scrollback) > 0
              /\ grid.scrollback[Len(grid.scrollback)] = Before.grid.rows[1]
        /\ cursor.fg = Before.cursor.fg
        /\ cursor.bg = Before.cursor.bg
        /\ cursor.flags = Before.cursor.flags
        /\ saved_cursor = Before.saved_cursor

\* C13 witness: LF was processed with the styled cursor right of column 0
\* above the last row, so nothing scrolled and the column went back to 0.
C13_Witness ==
    /\ Called(<<10>>)
    /\ Before.cursor.row + 1 < rows
    /\ Before.cursor.col > 0
    /\ Before.cursor.flags = BOLD
    /\ cursor.col = 0

\* C14: VT (0x0B) and FF (0x0C) perform the same newline as LF: processing
\* either gives the grid, scrollback and cursor that LF gives in that state.
C14_VtFfAsLf ==
    (Called(<<11>>) \/ Called(<<12>>)) =>
        /\ grid = process_bytes(Before, <<10>>).grid
        /\ cursor = process_bytes(Before, <<10>>).cursor

\* The cell that print writes: the character with the cursor's style
Written(c, cur) == [c |-> c, fg |-> cur.fg, bg |-> cur.bg, flags |-> cur.flags]

\* C15 (as stated): print of a printable character with the cursor at
\* (row, col) in the grid writes it with the cursor's style into cell
\* (row, col), marks that row dirty and advances cursor.col by exactly 1,
\* leaving cursor.row, all other cells and the scrollback unchanged (the wrap
\* is left to a later print).
C15_PrintDefersWrap ==
    (Called(<<97>>) /\ Before.cursor.row < rows /\ Before.cursor.col < cols) =>
        /\ grid = [Before.grid EXCEPT
                     !["rows"][Before.cursor.row + 1].dirty = TRUE,
                     !["rows"][Before.cursor.row + 1].cells[Before.cursor.col + 1] =
                         Written(97, Before.cursor)]
        /\ cursor.col = Before.cursor.col + 1
        /\ cursor.row = Before.cursor.row

\* C15 (amended): print of a printable character with the cursor at
\* (row, col) in the grid writes it with the cursor's style into cell
\* (row, col) and marks that row dirty.  When col + 1 < cols it advances
\* cursor.col by exactly 1 and leaves cursor.row, all other cells and the
\* scrollback unchanged.  When col + 1 = cols the wrap is performed at once,
\* in the same print: cursor.col = 0 and a newline, which moves the cursor to
\* the next row or, on the last row, scrolls the grid (with the written row)
\* up by one and keeps the cursor on row rows-1.
C15_PrintWrapsEagerly ==
    (Called(<<97>>) /\ Before.cursor.row < rows /\ Before.cursor.col < cols) =>
        LET written ==
                [Before.grid EXCEPT
                   !["rows"][Before.cursor.row + 1].dirty = TRUE,
                   !["rows"][Before.cursor.row + 1].cells[Before.cursor.col + 1] =
                       Written(97, Before.cursor)]
        IN IF Before.cursor.col + 1 < cols
           THEN /\ grid = written
                /\ cursor.col = Before.cursor.col + 1
                /\ cursor.row = Before.cursor.row
           ELSE /\ cursor.col = 0
                /\ IF Before.cursor.row + 1 < rows
                   THEN grid = written /\ cursor.row = Before.cursor.row + 1
                   ELSE ScrolledByOne(written, grid) /\ cursor.row = rows - 1

\* C15 witness: a bold red-on-blue 'a' was printed in the last column of the
\* last row of a grid two columns wide, on a row that was clean, so the print
\* wrapped and scrolled.
C15_Witness ==
    /\ Called(<<97>>)
    /\ cols = 2
    /\ Before.cursor.col = 1
    /\ Before.cursor.row = rows - 1
    /\ Before.cursor.fg = Named("Red")
    /\ ~Before.grid.rows[rows].dirty
    /\ cursor.col = 0

\* C16: terminal_get_cell with (row, col) outside the grid returns the CCell
\* of the default cell: ch = ' ', fg = the resolved Foreground (200,200,200),
\* bg = the resolved Background (20,20,20), flags = 0.
C16_GetCellOutOfBounds ==
    (/\ ret.some
     /\ ret.val.fn = "terminal_get_cell"
     /\ (ret.val.args[1] >= rows \/ ret.val.args[2] >= cols)) =>
        /\ ret.val.out = CCell_from(Cell_default)
        /\ ret.val.out = CCell(32, <<200, 200, 200>>, <<20, 20, 20>>, 0)

\* C18: without a PTY, terminal_read_pty, Terminal::send_input and
\* terminal_send_input report an outcome that differs from the outcome of an
\* operating-system I/O error on an attached PTY.
C18_NoPtyDistinguishable ==
    (ret.some /\ ~pty) =>
        /\ ret.val.fn = "terminal_read_pty" =>
              ret.val.out # terminal_read_pty(TRUE, -1)
        /\ ret.val.fn = "send_input" =>
              ret.val.out # send_input(TRUE, -1)
        /\ ret.val.fn = "terminal_send_input" =>
              ret.val.out # terminal_send_input(TRUE, -1)

\* Conversion to an 8-bit value by saturation
Saturate8(v) == IF v > 255 THEN 255 ELSE v

\* C17: in SGR 38;5;n, 48;5;n, 38;2;r;g;b and 48;2;r;g;b every numeric
\* parameter is converted to 8 bits by saturation: a value up to 255 is kept
\* and a larger one becomes 255.
C17_SgrSaturates ==
    \A v \in SgrValues :
        /\ Called(Sgr256(38, v)) => cursor.fg = Spec256(Saturate8(v))
        /\ Called(Sgr256(48, v)) => cursor.bg = Spec256(Saturate8(v))
        /\ \A g \in SgrValues : \A b \in SgrValues :
              /\ Called(SgrRgb(38, v, g, b)) =>
                    cursor.fg = SpecRgb(Saturate8(v), Saturate8(g), Saturate8(b))
              /\ Called(SgrRgb(48, v, g, b)) =>
                    cursor.bg = SpecRgb(Saturate8(v), Saturate8(g), Saturate8(b))

\* C19: clear_to_end(r, c) and clear_from_start(r, c) with c >= cols behave
\* as the same call with c = cols-1: clear_to_end resets cell (r, cols-1) and
\* every row below r, clear_from_start resets every row above r and the
\* whole of row r.
C19_EraseClampsColumn ==
    (/\ last_call.some
     /\ last_call.val.call.col >= cols
     /\ last_call.val.call.row < rows) =>
        LET r == last_call.val.call.row
        IN /\ last_call.val.call.fn = "clear_to_end" =>
                /\ grid = clear_to_end(Before.grid, r, cols - 1)
                /\ grid.rows[r + 1].cells[cols] = Cell_default
                /\ \A i \in (r + 2)..rows : \A j \in 1..cols :
                      grid.rows[i].cells[j] = Cell_default
           /\ last_call.val.call.fn = "clear_from_start" =>
                /\ grid = clear_from_start(Before.grid, r, cols - 1)
                /\ \A i \in 1..(r + 1) : \A j \in 1..cols :
                      grid.rows[i].cells[j] = Cell_default

\* C20: Terminal.resize keeps content without reflow: a row that stays
\* visible keeps its cells in the columns both widths have and has default
\* cells in added columns; on growth default rows are appended at the bottom
\* and rows keep their indices; on shrinking exactly the top rows are
\* removed, row 0 first, and appended to the scrollback tail in that order,
\* the remaining rows keeping their order.
C20_ResizeKeepsContent ==
    [][\A sz \in Sizes :
        Resize(sz[1], sz[2]) =>
            LET removed == Max(rows - sz[1], 0)
                kept == Min(cols, sz[2])
            IN /\ Len(grid'.rows) = sz[1]
               /\ \A i \in 1..sz[1] :
                     /\ Len(grid'.rows[i].cells) = sz[2]
                     /\ IF i + removed <= rows
                        THEN /\ \A j \in 1..kept :
                                   grid'.rows[i].cells[j] = grid.rows[i + removed].cells[j]
                             /\ \A j \in (kept + 1)..sz[2] :
                                   grid'.rows[i].cells[j] = Cell_default
                        ELSE \A j \in 1..sz[2] :
                                   grid'.rows[i].cells[j] = Cell_default
               /\ Len(grid'.scrollback) = Len(grid.scrollback) + removed
               /\ \A m \in 1..Len(grid.scrollback) :
                     grid'.scrollback[m] = grid.scrollback[m]
               /\ \A m \in 1..removed : \A j \in 1..kept :
                     grid'.scrollback[Len(grid.scrollback) + m].cells[j] =
                         grid.rows[m].cells[j]]_vars

\* C20 witness: a resize to one row and one column removed two rows from
\* the top and left them in the scrollback in their order, the first with
\* its 'a'; the row that stayed visible kept its 'a'.
C20_Witness ==
    /\ resized_since
    /\ rows = 1 /\ cols = 1
    /\ Len(grid.scrollback) = 2
    /\ grid.scrollback[1].cells[1].c = 97
    /\ grid.scrollback[2].cells[1].c = 32
    /\ grid.rows[1].cells[1].c = 97

\* The value of the k-th written parameter of a cursor motion: 1 when it is
\* omitted or 0
MotionValue(ps, k) == IF k <= Len(ps) /\ ps[k] > 0 THEN ps[k] ELSE 1

\* Where a cursor at (row, col) in a grid of rs rows and cs columns is after
\* the motion m
MovedTo(m, row, col, rs, cs) ==
    LET n == MotionValue(m.params, 1)
        k == MotionValue(m.params, 2)
    IN CASE m.final = 65 -> <<IF row - n > 0 THEN row - n ELSE 0, col>>
         [] m.final = 66 -> <<IF row + n < rs - 1 THEN row + n ELSE rs - 1, col>>
         [] m.final = 67 -> <<row, IF col + n < cs - 1 THEN col + n ELSE cs - 1>>
         [] m.final = 68 -> <<row, IF col - n > 0 THEN col - n ELSE 0>>
         [] OTHER -> <<IF n - 1 < rs - 1 THEN n - 1 ELSE rs - 1,
                       IF k - 1 < cs - 1 THEN k - 1 ELSE cs - 1>>

\* C21: CSI n A / B / C / D set row = max(0, row - n), row = min(rows - 1,
\* row + n), col = min(cols - 1, col + n), col = max(0, col - n), and
\* CSI r ; c H (or f) sets row = min(r - 1, rows - 1), col = min(c - 1,
\* cols - 1); an omitted or 0 parameter counts as 1.  None of them changes a
\* cell, a dirty flag, the scrollback, the cursor's style or the saved cursor.
\* Stated of every motion sequence given to process_bytes in every state
\* reached between whole sequences.
C21_CursorMotion ==
    AtRest =>
        \A m \in MotionCalls :
            LET T == process_bytes(Term, CsiSeq(m.params, m.final))
                to == MovedTo(m, cursor.row, cursor.col, rows, cols)
            IN /\ T.cursor = [cursor EXCEPT !.row = to[1], !.col = to[2]]
               /\ T.grid = grid
               /\ T.saved_cursor = saved_cursor
               /\ T.rows = rows /\ T.cols = cols
               /\ ~T.panicked

\* C21 witness: CSI 2 B moved a bold red-on-blue cursor from row 0 to row 2
\* of three rows (unclamped), over a printed cell, a clean row and a saved
\* cursor.
C21_Witness ==
    /\ Called(CsiSeq(<<2>>, 66))
    /\ Before.cursor.row = 0 /\ cursor.row = 2 /\ rows = 3
    /\ contains(cursor.flags, BOLD)
    /\ saved_cursor.some
    /\ SomePrinted
    /\ \E i \in 1..Len(grid.rows) : ~grid.rows[i].dirty

\* The column after CR, BS or HT from column col of cs columns
ColumnAfter(byte, col, cs) ==
    CASE byte = 13 -> 0
      [] byte = 8 -> IF col > 0 THEN col - 1 ELSE col
      [] byte = 9 -> LET stop == ((col \div 8) + 1) * 8
                      IN IF stop < cs - 1 THEN stop ELSE cs - 1

\* C22: CR sets col = 0; BS decrements col when col > 0 and erases no cell;
\* HT sets col = min(((col / 8) + 1) * 8, cols - 1).  Each leaves the cursor's
\* row, every cell, every dirty flag and the scrollback unchanged.  Stated of
\* each of the three bytes given to process_bytes in every state reached
\* between whole sequences.
C22_CrBsHt ==
    AtRest =>
        \A call \in TabCalls :
            LET T == process_bytes(Term, call)
            IN /\ T.cursor = [cursor EXCEPT !.col = ColumnAfter(call[1], cursor.col, cols)]
               /\ T.grid = grid
               /\ ~T.panicked

\* C22 witness: HT moved the cursor from column 3 to the tab stop at column 8
\* of ten columns, short of the last column, over a printed cell in a clean
\* row.
C22_Witness ==
    /\ Called(<<9>>)
    /\ Before.cursor.col = 3 /\ cursor.col = 8 /\ cols = 10
    /\ grid = Before.grid
    /\ SomePrinted
    /\ ~grid.rows[1].dirty

\* The mode of an erase: 0 when the parameter is omitted
EraseMode(e) == IF e.params = <<>> THEN 0 ELSE e.params[1]

\* Cell (r, c) lies in the region that the erase e resets with the cursor at
\* (row, col); all positions count from 0
InRegion(e, r, c, row, col) ==
    LET mode == EraseMode(e)
    IN IF e.final = 74
       THEN CASE mode = 0 -> r > row \/ (r = row /\ c >= col)
              [] mode = 1 -> r < row \/ (r = row /\ c <= col)
              [] OTHER -> TRUE
       ELSE CASE mode = 0 -> r = row /\ c >= col
              [] mode = 1 -> r = row /\ c <= col
              [] OTHER -> r = row

\* C23: with the cursor in bounds at (row, col), CSI J mode 0 / 1 / 2 or 3
\* resets the cells from (row, col) to the end of the screen / from the start
\* of the screen through (row, col) / all cells, and CSI K mode 0 / 1 / 2
\* resets (row, col..cols) / (row, 0..=col) / the cursor's row; the erased
\* cells are the default cell whatever the cursor's style, every other cell
\* is unchanged, and so are the cursor and the scrollback.  Stated of every
\* erase given to process_bytes in every state reached between whole
\* sequences.
C23_EraseExactRegion ==
    (AtRest /\ cursor.row < rows /\ cursor.col < cols) =>
        \A e \in EraseCalls :
            LET T == process_bytes(Term, CsiSeq(e.params, e.final))
            IN /\ ~T.panicked
               /\ T.cursor = cursor
               /\ T.grid.scrollback = grid.scrollback
               /\ Len(T.grid.rows) = rows
               /\ \A r \in 0..(rows - 1) :
                    /\ Len(T.grid.rows[r + 1].cells) = cols
                    /\ \A c \in 0..(cols - 1) :
                         T.grid.rows[r + 1].cells[c + 1] =
                             IF InRegion(e, r, c, cursor.row, cursor.col)
                             THEN Cell_default
                             ELSE grid.rows[r + 1].cells[c + 1]

\* C23 witness: CSI 1 K with a bold red-on-blue cursor at (0, 0) of a grid of
\* two columns reset the styled 'a' under the cursor to the default cell and
\* kept the styled 'a' right of it.
C23_Witness ==
    /\ Called(CsiSeq(<<1>>, 75))
    /\ cols = 2 /\ cursor.row = 0 /\ cursor.col = 0
    /\ contains(cursor.flags, BOLD)
    /\ Before.grid.rows[1].cells[1].c = 97
    /\ contains(Before.grid.rows[1].cells[1].flags, BOLD)
    /\ grid.rows[1].cells[1] = Cell_default
    /\ grid.rows[1].cells[2] = Before.grid.rows[1].cells[2]
    /\ grid.rows[1].cells[2].c = 97
    /\ contains(grid.rows[1].cells[2].flags, BOLD)

\* The cursor after the parameters ps[k..] are applied as the claim states:
\* 38 / 48 with 5 and one more parameter select an indexed colour, with 2 and
\* three more an RGB colour, and otherwise are passed over alone; of the
\* other parameters of the lists, 5 sets Blink and 2 is unknown
RECURSIVE ExtApplied(_, _, _)
ExtApplied(cur, ps, k) ==
    IF k > Len(ps) THEN cur
    ELSE IF ps[k] \in {38, 48}
    THEN IF k + 2 <= Len(ps) /\ ps[k + 1] = 5
         THEN ExtApplied(IF ps[k] = 38 THEN [cur EXCEPT !.fg = Spec256(ps[k + 2])]
                                       ELSE [cur EXCEPT !.bg = Spec256(ps[k + 2])],
                         ps, k + 3)
         ELSE IF k + 4 <= Len(ps) /\ ps[k + 1] = 2
         THEN ExtApplied(IF ps[k] = 38
                         THEN [cur EXCEPT !.fg = SpecRgb(ps[k + 2], ps[k + 3], ps[k + 4])]
                         ELSE [cur EXCEPT !.bg = SpecRgb(ps[k + 2], ps[k + 3], ps[k + 4])],
                         ps, k + 5)
         ELSE ExtApplied(cur, ps, k + 1)
    ELSE ExtApplied(IF ps[k] = 5 THEN [cur EXCEPT !.flags = set(cur.flags, BLINK, TRUE)]
                                 ELSE cur,
                    ps, k + 1)

\* C24: in an SGR parameter list, 38 (48) followed by 5 and at least one more
\* parameter sets fg (bg) to the indexed colour p[i+2] and skips those two
\* parameters; followed by 2 and at least three more it sets the RGB colour
\* (p[i+2], p[i+3], p[i+4]) and skips those four; in every other case only the
\* 38 / 48 is consumed, the colour is unchanged and processing continues with
\* the next parameter.  The index strictly increases, so the handling ends
\* within len(params) steps.
C24_ExtendedColours ==
    AtRest =>
        \A ps \in ExtLists :
            /\ process_bytes(Term, CsiSeq(ps, 109)).cursor = ExtApplied(cursor, ps, 1)
            /\ \A i \in 0..(Len(ps) - 1) : SgrNext(ps, i) > i
            /\ SgrSteps(ps, 0) <= Len(ps)

\* C24 witness: in CSI 48;2;5;38;2 m, with the cursor's background blue, 48
\* was followed by 2 and three more parameters and set the background to
\* RGB(5, 38, 2), so that the 38 was not read as a colour selector.
C24_Witness ==
    /\ Called(CsiSeq(<<48, 2, 5, 38, 2>>, 109))
    /\ Before.cursor.bg = Named("Blue")
    /\ cursor.bg = SpecRgb(5, 38, 2)
    /\ cursor.fg = Before.cursor.fg
    /\ cursor.flags = Before.cursor.flags

\* The named colours in the order of their SGR parameters
NormalNames ==
    <<"Black", "Red", "Green", "Yellow", "Blue", "Magenta", "Cyan", "White">>
BrightNames ==
    <<"BrightBlack", "BrightRed", "BrightGreen", "BrightYellow", "BrightBlue",
      "BrightMagenta", "BrightCyan", "BrightWhite">>

\* The flag that an SGR parameter sets (1, 3, 4, 5, 7, 9) or clears
\* (22, 23, 24, 25, 27, 29)
StyleFlag(p) ==
    CASE p \in {1, 22} -> BOLD
      [] p \in {3, 23} -> ITALIC
      [] p \in {4, 24} -> UNDERLINE
      [] p \in {5, 25} -> BLINK
      [] p \in {7, 27} -> INVERSE
      [] p \in {9, 29} -> STRIKETHROUGH

\* The cursor after one parameter of the style table
StyleOne(cur, p) ==
    CASE p = 0 -> [cur EXCEPT !.fg = Named("Foreground"), !.bg = Named("Background"),
                              !.flags = 0]
      [] p \in {1, 3, 4, 5, 7, 9} ->
            [cur EXCEPT !.flags = IF contains(cur.flags, StyleFlag(p)) THEN cur.flags
                                  ELSE cur.flags + StyleFlag(p)]
      [] p \in {22, 23, 24, 25, 27, 29} ->
            [cur EXCEPT !.flags = IF contains(cur.flags, StyleFlag(p))
                                  THEN cur.flags - StyleFlag(p) ELSE cur.flags]
      [] p \in 30..37 -> [cur EXCEPT !.fg = Named(NormalNames[p - 29])]
      [] p \in 90..97 -> [cur EXCEPT !.fg = Named(BrightNames[p - 89])]
      [] p \in 40..47 -> [cur EXCEPT !.bg = Named(NormalNames[p - 39])]
      [] p \in 100..107 -> [cur EXCEPT !.bg = Named(BrightNames[p - 99])]
      [] OTHER -> cur

\* The cursor after the parameters of ps, left to right
RECURSIVE StyleApplied(_, _)
StyleApplied(cur, ps) ==
    IF ps = <<>> THEN cur ELSE StyleApplied(StyleOne(cur, Head(ps)), Tail(ps))

\* C25: SGR changes only the cursor's style.  The parameters are applied left
\* to right: 0 resets fg, bg and flags to Foreground, Background and none;
\* 1, 3, 4, 5, 7, 9 set and 22, 23, 24, 25, 27, 29 clear Bold, Italic,
\* Underline, Blink, Inverse, Strikethrough; 30-37 and 90-97 set fg, 40-47 and
\* 100-107 set bg to the matching named colour; unknown parameters are
\* ignored; an empty list is [0].  No SGR changes the cursor's position, the
\* saved cursor, a cell of the grid, a dirty flag or the scrollback; a
\* character printed afterwards carries the new style.
C25_SgrOnlyStyle ==
    AtRest =>
        \A ps \in StyleLists :
            LET T == process_bytes(Term, CsiSeq(ps, 109))
                P == process_bytes(T, <<97>>)
            IN /\ T.cursor = StyleApplied(cursor, IF ps = <<>> THEN <<0>> ELSE ps)
               /\ T.grid = grid
               /\ T.saved_cursor = saved_cursor
               /\ T.rows = rows /\ T.cols = cols /\ ~T.panicked
               /\ (cursor.col + 1 < cols) =>
                     P.grid.rows[cursor.row + 1].cells[cursor.col + 1] =
                         [c |-> 97, fg |-> T.cursor.fg, bg |-> T.cursor.bg,
                          flags |-> T.cursor.flags]

\* C25 witness: CSI 22;97;105 m made a bold red-on-blue cursor plain
\* bright-white on bright-magenta, while the bold red-on-blue 'a' already in
\* the grid, a clean row and the saved cursor stayed as they were.
C25_Witness ==
    /\ Called(CsiSeq(<<22, 97, 105>>, 109))
    /\ contains(Before.cursor.flags, BOLD)
    /\ Before.cursor.fg = Named("Red")
    /\ cursor.flags = 0
    /\ cursor.fg = Named("BrightWhite") /\ cursor.bg = Named("BrightMagenta")
    /\ grid = Before.grid
    /\ grid.rows[1].cells[1] =
           [c |-> 97, fg |-> Named("Red"), bg |-> Named("Blue"), flags |-> BOLD]
    /\ ~grid.rows[1].dirty
    /\ saved_cursor.some /\ saved_cursor = Before.saved_cursor

\* The last n elements of the sequence s
LastN(s, n) == SubSeq(s, Len(s) - n + 1, Len(s))

\* The grid g1 is the grid g0 after one scroll_up as C26 states it
ScrolledUp(g0, g1) ==
    LET pushed == Append(g0.scrollback, g0.rows[1])
        n == Len(g0.rows)
    IN /\ g1.scrollback = IF Len(pushed) > g0.max_scrollback THEN Tail(pushed) ELSE pushed
       /\ Len(g1.rows) = n
       /\ \A i \in 1..(n - 1) : g1.rows[i] = g0.rows[i + 1]
       /\ g1.rows[n] = [cells |-> [j \in 1..g0.cols |-> Cell_default], dirty |-> TRUE]

\* C26: the scrollback is a bounded FIFO of the scrolled-off lines.
\* Grid::scroll_up appends the old row 0 to the scrollback's tail, drops the
\* scrollback's head if the length then exceeds max_scrollback, moves every
\* other visible row up by one with its content intact, and appends a fresh
\* default dirty row; hence after k scroll_ups from an empty scrollback, with
\* no resize, the scrollback holds the most recent min(k, max_scrollback)
\* scrolled-off rows, oldest first.
C26_ScrollbackFifo ==
    /\ ScrolledUp(grid, scroll_up(grid))
    /\ grid.scrollback =
           LastN(fed, IF Len(fed) < grid.max_scrollback THEN Len(fed)
                      ELSE grid.max_scrollback)

\* C26 witness: three rows were scrolled off, each different from the next,
\* into a scrollback of at most two rows, which holds the second and the
\* third.
C26_Witness ==
    /\ Len(fed) = 3 /\ grid.max_scrollback = 2
    /\ fed[1] # fed[2] /\ fed[2] # fed[3]
    /\ grid.scrollback = <<fed[2], fed[3]>>

\* C27: after Terminal.resize(new_rows, new_cols), also when new_cols is the
\* previous number of columns, every row that existed before the resize and
\* is still visible is marked dirty.  (Rows are removed from the top, so the
\* rows that existed before are the first min(rows, new_rows) of the new
\* grid.)
C27_ResizeMarksDirty ==
    [][\A sz \in Sizes :
         Resize(sz[1], sz[2]) =>
             \A i \in 1..(IF rows < sz[1] THEN rows ELSE sz[1]) : grid'.rows[i].dirty]_vars

\* C28: Grid::get_cell_mut(r, c) on a hit returns the cell at (r, c) (a value
\* written through it is what a later get_cell(r, c) returns) and marks
\* exactly row r dirty; with r out of range it returns a miss and changes no
\* dirty flag and no cell; get_cell(r, c) changes no state and misses exactly
\* when r >= rows or c >= cols.  Stated of every (r, c) inside and just past
\* the grid, in every state reached, also after a resize and a scroll_down
\* (where C31 fails: a row narrower than the grid makes the calls miss inside
\* the grid).
C28_CellAccess ==
    \A r \in 0..MaxRows : \A c \in 0..MaxCols :
        LET inside == r < Len(grid.rows) /\ c < grid.cols
            g1 == WriteThrough(grid, r, c, 98)
        IN /\ inside => get_cell_mut_hit(grid, r, c)
           /\ get_cell_mut_hit(grid, r, c) =>
                /\ get_cell(g1, r, c) = Some([grid.rows[r + 1].cells[c + 1] EXCEPT !.c = 98])
                /\ g1.rows[r + 1].dirty
                /\ g1.scrollback = grid.scrollback
                /\ Len(g1.rows) = Len(grid.rows)
                /\ \A i \in 1..Len(grid.rows) :
                     /\ i # r + 1 => g1.rows[i] = grid.rows[i]
                     /\ \A j \in 1..Len(grid.rows[i].cells) :
                          (i # r + 1 \/ j # c + 1) =>
                              g1.rows[i].cells[j] = grid.rows[i].cells[j]
           /\ r >= Len(grid.rows) =>
                ~get_cell_mut_hit(grid, r, c) /\ get_cell_mut_grid(grid, r) = grid
           /\ get_cell(grid, r, c).some <=> inside
           /\ inside => get_cell(grid, r, c).val = grid.rows[r + 1].cells[c + 1]

\* C30: starting with rows >= 1 and fewer scrollback rows than
\* max_scrollback, scroll_up followed by scroll_down restores the visible rows
\* (cells and dirty flags) and the scrollback; scroll_down with an empty
\* scrollback changes nothing; scroll_down never changes the number of
\* visible rows.
C30_ScrollRoundTrip ==
    /\ (Len(grid.rows) >= 1 /\ Len(grid.scrollback) < grid.max_scrollback) =>
           scroll_down(scroll_up(grid)) = grid
    /\ grid.scrollback = <<>> => scroll_down(grid) = grid
    /\ Len(scroll_down(grid).rows) = Len(grid.rows)

\* C30 witness: a scroll_down undid a scroll_up.  The grid before the
\* scroll_down is the scroll-up of the present grid, which has two rows or
\* more, a clean top row with an 'a' and one row of scrollback.
C30_Witness ==
    /\ Called([fn |-> "scroll_down", row |-> 0, col |-> 0])
    /\ Before.grid = scroll_up(grid)
    /\ Len(grid.rows) >= 2
    /\ ~grid.rows[1].dirty /\ grid.rows[1].cells[1].c = 97
    /\ grid.rows[2].dirty
    /\ Len(grid.scrollback) = 1

\* C29: ignored input has no effect.  BEL and every C0 control other than CR,
\* LF, VT, FF, BS and HT, every CSI whose final byte is not one of A B C D H f
\* J K m s u, and every ESC, OSC and DCS (hook / put / unhook) dispatch leave
\* the cells, the dirty flags, the scrollback, the cursor's position and
\* style and the saved cursor unchanged.  Stated of every such input given to
\* process_bytes in every state reached between whole sequences; the input
\* is consumed whole, so the parser is between sequences again.
C29_IgnoredInput ==
    AtRest =>
        \A bytes \in IgnoredInputs :
            LET T == process_bytes(Term, bytes)
            IN /\ T.parser.state = "Ground"
               /\ T.grid = grid
               /\ T.cursor = cursor
               /\ T.saved_cursor = saved_cursor
               /\ T.rows = rows /\ T.cols = cols
               /\ ~T.panicked

\* C29 witness: the OSC string ESC ] 0 ; a BEL was given to a terminal with a
\* printed cell in a clean row, a bold cursor and a saved cursor, and left
\* all of them as they were: the 'a' of the string was not printed.
C29_Witness ==
    /\ Called(OscTitle)
    /\ grid = Before.grid
    /\ cursor = Before.cursor
    /\ saved_cursor = Before.saved_cursor
    /\ AtRest
    /\ SomePrinted
    /\ contains(cursor.flags, BOLD)
    /\ saved_cursor.some
    /\ \E i \in 1..Len(grid.rows) : ~grid.rows[i].dirty

\* C31: at the Grid API level, after any sequence of new, scroll_up,
\* scroll_down, clear, clear_to_end, clear_from_start and resize, every
\* visible row has as many cells as grid.cols, also a row that scroll_down
\* brought back from the scrollback.  Violated: scroll_down puts the
\* scrollback row back as it was stored, and resize never touches the
\* scrollback, so after a resize to another column count the row that comes
\* back has the old width.
C31_RowsHaveGridWidth ==
    \A i \in 1..Len(grid.rows) : Len(grid.rows[i].cells) = grid.cols

\* C32: zero dimensions are handled without failure: a terminal created with
\* rows = 0 or cols = 0, or resized to such a size, completes resize and
\* processes LF, printable characters, HT and CSI B / C / H without panicking
\* or underflowing rows - 1 / cols - 1.  Violated: with no row, LF and a
\* wrapping print reach Grid::scroll_up, which removes row 0 of an empty Vec;
\* HT, CSI B / C / H and resize compute rows - 1 or cols - 1 of 0.
C32_ZeroDimensions == (rows = 0 \/ cols = 0) => ~panicked

====
